---- MODULE Spec2Model ----
(***************************************************************************)
(* Hostname checker: the job submission endpoint, the HostCheckWorkflow    *)
(* (DNS lookups, proxy classification, CAA policy, zone-hold probe, save)  *)
(* and the two database tables it writes.                                  *)
(*                                                                         *)
(* Strings are tuples of one-character strings, so that split, join,       *)
(* includes, toLowerCase and the CAA regular expression are computed.      *)
(* Timestamps (Date.now()) are left out of rows and results.               *)
(***************************************************************************)
EXTENDS Integers, Sequences, FiniteSets, TLC

\* ------------------------------------------------------------------------
\* Bounds of the model
\* ------------------------------------------------------------------------

\* retries the step executor grants a throwing step before it gives up
MaxRetries == 1

\* the submissions (requests to POST /api/check-host) a behaviour makes
Slots == {1, 2}

\* ------------------------------------------------------------------------
\* String literals of the source
\* ------------------------------------------------------------------------

Undefined == <<"undefined">>

Str_issue ==
    <<"i", "s", "s", "u", "e">>
Str_issuewild ==
    <<"i", "s", "s", "u", "e", "w", "i", "l", "d">>
Str_pki_goog ==
    <<"p", "k", "i", ".", "g", "o", "o", "g">>
Str_ssl_com ==
    <<"s", "s", "l", ".", "c", "o", "m">>
Str_letsencrypt_org ==
    <<"l", "e", "t", "s", "e", "n", "c", "r", "y", "p", "t", ".", "o", "r", "g">>
Str_another_account ==
    <<"a", "n", "o", "t", "h", "e", "r", " ", "a", "c", "c", "o", "u", "n", "t">>
Str_zone_hold ==
    <<"z", "o", "n", "e", " ", "h", "o", "l", "d">>
Str_MissingCredentials ==
    <<"M", "i", "s", "s", "i", "n", "g", " ", "c", "r", "e", "d", "e", "n", "t", "i", "a", "l", "s">>
Str_APIError ==
    <<"A", "P", "I", " ", "E", "r", "r", "o", "r">>
Str_UnknownError ==
    <<"U", "n", "k", "n", "o", "w", "n", " ", "e", "r", "r", "o", "r">>
Str_LikelyDetails ==
    <<"D", "o", "m", "a", "i", "n", " ", "u", "s", "e", "s", " ", "C", "l", "o", "u", "d", "f", "l", "a", "r", "e", " ", "n", "a", "m", "e", "s", "e", "r", "v", "e", "r", "s", " ", "-", " ", "l", "i", "k", "e", "l", "y", " ", "m", "a", "n", "a", "g", "e", "d", " ", "b", "y", " ", "a", "n", "o", "t", "h", "e", "r", " ", "C", "F", " ", "a", "c", "c", "o", "u", "n", "t">>
Str_CommaSpace == <<",", " ">>
Str_Dot == <<".">>

DigitChars ==
    <<"0", "1", "2", "3", "4", "5", "6", "7", "8", "9">>
UpperCase ==
    <<"A", "B", "C", "D", "E", "F", "G", "H", "I", "J", "K", "L", "M", "N", "O", "P", "Q", "R", "S", "T", "U", "V", "W", "X", "Y", "Z">>
LowerCase ==
    <<"a", "b", "c", "d", "e", "f", "g", "h", "i", "j", "k", "l", "m", "n", "o", "p", "q", "r", "s", "t", "u", "v", "w", "x", "y", "z">>

\* ------------------------------------------------------------------------
\* JavaScript string and array operations used by the source
\* ------------------------------------------------------------------------

IndexIn(c, s) ==
    IF \E i \in 1..Len(s) : s[i] = c
    THEN CHOOSE i \in 1..Len(s) : s[i] = c /\ \A k \in 1..(i - 1) : s[k] # c
    ELSE 0

\* String.prototype.toLowerCase
toLowerCase(s) ==
    [i \in 1..Len(s) |->
        IF IndexIn(s[i], UpperCase) > 0 THEN LowerCase[IndexIn(s[i], UpperCase)] ELSE s[i]]

\* String.prototype.includes
includes(s, sub) ==
    \E i \in 0..(Len(s) - Len(sub)) : SubSeq(s, i + 1, i + Len(sub)) = sub

\* String.prototype.split with a one-character separator
RECURSIVE split(_, _)
split(s, c) ==
    IF IndexIn(c, s) = 0
    THEN <<s>>
    ELSE <<SubSeq(s, 1, IndexIn(c, s) - 1)>>
            \o split(SubSeq(s, IndexIn(c, s) + 1, Len(s)), c)

\* Array.prototype.join
RECURSIVE join(_, _)
join(xs, sep) ==
    IF Len(xs) = 0 THEN <<>>
    ELSE IF Len(xs) = 1 THEN xs[1]
    ELSE xs[1] \o sep \o join(Tail(xs), sep)

\* Array.prototype.slice(1)
slice1(xs) == IF Len(xs) = 0 THEN <<>> ELSE Tail(xs)

\* Answer.filter(a => a.type === t).map(a => a.data)
RECURSIVE dataOfType(_, _)
dataOfType(answers, t) ==
    IF Len(answers) = 0 THEN <<>>
    ELSE (IF answers[1].type = t THEN <<answers[1].data>> ELSE <<>>)
            \o dataOfType(Tail(answers), t)

\* Number(s) / parseInt(s, 10) of a string of decimal digits
RECURSIVE parseInt(_)
parseInt(s) ==
    IF Len(s) = 0 THEN 0
    ELSE 10 * parseInt(SubSeq(s, 1, Len(s) - 1)) + (IndexIn(s[Len(s)], DigitChars) - 1)

\* String.prototype.trim
RECURSIVE trim(_)
trim(s) ==
    IF Len(s) = 0 THEN s
    ELSE IF s[1] \in {" ", "\t", "\n", "\r"} THEN trim(Tail(s))
    ELSE IF s[Len(s)] \in {" ", "\t", "\n", "\r"} THEN trim(SubSeq(s, 1, Len(s) - 1))
    ELSE s

\* hostname.split('.').slice(1).join('.')
parentOf(hostname) == join(slice1(split(hostname, ".")), Str_Dot)

\* ------------------------------------------------------------------------
\* services/cloudflare: proxy ranges
\* ------------------------------------------------------------------------

CLOUDFLARE_IPV4 ==
    << <<173, 245, 48, 0, 20>>,
       <<103, 21, 244, 0, 22>>,
       <<103, 22, 200, 0, 22>>,
       <<103, 31, 4, 0, 22>>,
       <<141, 101, 64, 0, 18>>,
       <<108, 162, 192, 0, 18>>,
       <<190, 93, 240, 0, 20>>,
       <<188, 114, 96, 0, 20>>,
       <<197, 234, 240, 0, 22>>,
       <<198, 41, 128, 0, 17>>,
       <<162, 158, 0, 0, 15>>,
       <<104, 16, 0, 0, 13>>,
       <<104, 24, 0, 0, 14>>,
       <<172, 64, 0, 0, 13>>,
       <<131, 0, 72, 0, 22>> >>

\* (p[0] << 24) | (p[1] << 16) | (p[2] << 8) | p[3] on 32-bit signed integers,
\* for octets in 0..255: the first shift wraps to a negative number from 128 on
toInt32(p) ==
    (IF p[1] >= 128 THEN (p[1] - 256) * 16777216 ELSE p[1] * 16777216)
        + p[2] * 65536 + p[3] * 256 + p[4]

\* the mask without its complement: the low k bits kept instead of cleared
andMask_LowBits(x, k) == x % (2 ^ k)

\* x & ~(2 ** k - 1): the low k bits of the two's-complement number cleared
andMask(x, k) == x - (x % (2 ^ k))

\* the comparison under a mask one bit shorter than the prefix length asks for
ipInCidr_ShortMask(ip, cidr) ==
    andMask(toInt32([i \in 1..4 |-> parseInt(split(ip, ".")[i])]), 33 - cidr[5])
        = andMask(toInt32(cidr), 33 - cidr[5])

ipInCidr(ip, cidr) ==
    LET k == 32 - cidr[5]
        ipParts == [i \in 1..4 |-> parseInt(split(ip, ".")[i])]
        ipNum == toInt32(ipParts)
        rangeNum == toInt32(cidr)
    IN  andMask(ipNum, k) = andMask(rangeNum, k)

isCloudflareIp(ip) ==
    IF includes(ip, <<":">>) THEN FALSE
    ELSE \E i \in 1..Len(CLOUDFLARE_IPV4) : ipInCidr(ip, CLOUDFLARE_IPV4[i])

\* ips.some(ip => isCloudflareIp(ip))
someCloudflareIp(ips) == \E i \in 1..Len(ips) : isCloudflareIp(ips[i])

\* ------------------------------------------------------------------------
\* services/dns: CAA decoding (text form)
\* ------------------------------------------------------------------------

IsDigit(c) == IndexIn(c, DigitChars) > 0
IsSpace(c) == c \in {" ", "\t", "\n", "\r"}
IsWord(c) ==
    IsDigit(c) \/ IndexIn(c, UpperCase) > 0 \/ IndexIn(c, LowerCase) > 0 \/ c = "_"
IsLineEnd(c) == c \in {"\n", "\r"}

\* the length of the longest run of characters of one class starting at s[from]
RECURSIVE runOf(_, _, _)
runOf(s, from, class) ==
    IF from > Len(s) THEN 0
    ELSE IF (class = "d" /\ IsDigit(s[from]))
            \/ (class = "s" /\ IsSpace(s[from]))
            \/ (class = "w" /\ IsWord(s[from]))
         THEN 1 + runOf(s, from + 1, class)
         ELSE 0

\* data.match(/^(\d+)\s+(\w+)\s+(?:"(.*)"|(.*))$/): the groups, or matched FALSE.
\* The classes \d, \s and \w are disjoint at each boundary, so every greedy run
\* is maximal and backtracking never helps; the quoted alternative is tried
\* first and needs the rest to start and end with a quote; '.' matches no line
\* terminator. d, s1, w, s2 are the lengths of the four runs, rest what follows.
isQuoted(rest) == Len(rest) >= 2 /\ rest[1] = "\"" /\ rest[Len(rest)] = "\""

matchGroups(data, d, s1, w, s2, rest, quoted) ==
    IF d = 0 \/ s1 = 0 \/ w = 0 \/ s2 = 0 \/ (\E i \in 1..Len(rest) : IsLineEnd(rest[i]))
    THEN [matched |-> FALSE, g1 |-> Undefined, g2 |-> Undefined,
          g3 |-> Undefined, g4 |-> Undefined]
    ELSE [matched |-> TRUE,
          g1 |-> SubSeq(data, 1, d),
          g2 |-> SubSeq(data, d + s1 + 1, d + s1 + w),
          g3 |-> IF quoted THEN SubSeq(rest, 2, Len(rest) - 1) ELSE Undefined,
          g4 |-> IF quoted THEN Undefined ELSE rest]

matchRest(data, d, s1, w, s2, rest) ==
    matchGroups(data, d, s1, w, s2, rest, isQuoted(rest))

matchSpace2(data, d, s1, w, s2) ==
    matchRest(data, d, s1, w, s2, SubSeq(data, d + s1 + w + s2 + 1, Len(data)))

matchWord(data, d, s1, w) ==
    matchSpace2(data, d, s1, w, runOf(data, d + s1 + w + 1, "s"))

matchSpace1(data, d, s1) == matchWord(data, d, s1, runOf(data, d + s1 + 1, "w"))

matchDigits(data, d) == matchSpace1(data, d, runOf(data, d + 1, "s"))

matchCAA(data) == matchDigits(data, runOf(data, 1, "d"))

\* a || b on strings: the empty string and undefined are falsy
orElse(a, b) == IF a = Undefined \/ a = <<>> THEN b ELSE a

Null == [isNull |-> TRUE]

\* the record parseCAA builds from a successful match m
caaRecord(m) ==
    IF ~m.matched THEN Null
    ELSE [isNull |-> FALSE,
          critical |-> ((parseInt(m.g1) \div 128) % 2 = 1),
          tag |-> m.g2,
          value |-> orElse(m.g3, m.g4)]

\* the decoder without its test of the answer's type
parseCAA_AnyType(answer) == caaRecord(matchCAA(answer.data))

parseCAA(answer) ==
    IF answer.type # 257 THEN Null ELSE caaRecord(matchCAA(answer.data))

\* answers.map(a => parseCAAHelper(a))
mapParseCAA(answers) == [i \in 1..Len(answers) |-> parseCAA(answers[i])]

\* .filter(x => x !== null) on one element
nonNull(x) == IF x = Null THEN <<>> ELSE <<x>>

\* caaCheckResult.map(a => parseCAAHelper(a)).filter(x => x !== null)
RECURSIVE parsedCaasOf(_)
parsedCaasOf(answers) ==
    IF Len(answers) = 0 THEN <<>>
    ELSE nonNull(parseCAA(answers[1])) \o parsedCaasOf(Tail(answers))

\* parsedCaas.some(r => ...) from index i on: "true", "false", or "throw" when
\* r.value.includes is reached on an undefined value
RECURSIVE someAllows(_, _, _)
someAllows(parsedCaas, domain, i) ==
    IF i > Len(parsedCaas) THEN "false"
    ELSE IF parsedCaas[i].tag # Str_issue /\ parsedCaas[i].tag # Str_issuewild
         THEN someAllows(parsedCaas, domain, i + 1)
    ELSE IF parsedCaas[i].value = Undefined THEN "throw"
    ELSE IF includes(parsedCaas[i].value, domain) THEN "true"
    ELSE someAllows(parsedCaas, domain, i + 1)

\* return allowed ? 'allowed' : 'not_allowed', or the TypeError carried on
verdictOf(allowed) ==
    IF allowed = "throw" THEN "throw"
    ELSE IF allowed = "true" THEN "allowed"
    ELSE "not_allowed"

checkCaa(parsedCaas, domain) ==
    IF Len(parsedCaas) = 0 THEN "allowed"
    ELSE verdictOf(someAllows(parsedCaas, domain, 1))

\* ------------------------------------------------------------------------
\* handlers/hostHandler: CAA decoding (hex and text form)
\* ------------------------------------------------------------------------

\* the character of the byte 0x60, which a string literal cannot hold
GraveAccent == "grave"

\* the characters of the bytes 0x20..0x7E
Ascii ==
    << " ", "!", "\"", "#", "$", "%", "&", "'", "(", ")", "*", "+", ",", "-", ".", "/",
       "0", "1", "2", "3", "4", "5", "6", "7", "8", "9", ":", ";", "<", "=", ">", "?",
       "@", "A", "B", "C", "D", "E", "F", "G", "H", "I", "J", "K", "L", "M", "N", "O",
       "P", "Q", "R", "S", "T", "U", "V", "W", "X", "Y", "Z", "[", "\\", "]", "^", "_",
       GraveAccent, "a", "b", "c", "d", "e", "f", "g", "h", "i", "j", "k", "l", "m", "n", "o",
       "p", "q", "r", "s", "t", "u", "v", "w", "x", "y", "z", "{", "|", "}", "~" >>

\* the character that stands for each byte outside 0x20..0x7E in decoded text
Str_OtherByte == "\\x"

\* the value of a hexadecimal digit, -1 for any other character
hexVal(c) ==
    IF IsDigit(c) THEN IndexIn(c, DigitChars) - 1
    ELSE IF IndexIn(c, SubSeq(LowerCase, 1, 6)) > 0 THEN 9 + IndexIn(c, SubSeq(LowerCase, 1, 6))
    ELSE IF IndexIn(c, SubSeq(UpperCase, 1, 6)) > 0 THEN 9 + IndexIn(c, SubSeq(UpperCase, 1, 6))
    ELSE -1

\* the length of the run of non-whitespace characters starting at s[from]
RECURSIVE wordRun(_, _)
wordRun(s, from) ==
    IF from > Len(s) \/ IsSpace(s[from]) THEN 0 ELSE 1 + wordRun(s, from + 1)

\* data.split(/\s+/).filter(p => p.length > 0)
RECURSIVE parts(_)
parts(s) ==
    IF Len(s) = 0 THEN <<>>
    ELSE IF IsSpace(s[1]) THEN parts(Tail(s))
    ELSE <<SubSeq(s, 1, wordRun(s, 1))>> \o parts(SubSeq(s, wordRun(s, 1) + 1, Len(s)))

\* parts.slice(2).join('')
hexBytes(ps) == join(SubSeq(ps, 3, Len(ps)), <<>>)

\* hexBytes.match(/.{1,2}/g): pairs of characters, the last one possibly single
RECURSIVE hexMatch(_)
hexMatch(s) ==
    IF Len(s) = 0 THEN <<>>
    ELSE IF Len(s) <= 2 THEN <<s>>
    ELSE <<SubSeq(s, 1, 2)>> \o hexMatch(SubSeq(s, 3, Len(s)))

\* the element new Uint8Array([parseInt(byte, 16)]) holds: parseInt reads an
\* optional sign and the longest prefix of hexadecimal digits, NaN is stored as
\* 0 and a negative number modulo 256
byteOf(byte) ==
    IF byte[1] \in {"-", "+"}
    THEN IF Len(byte) < 2 \/ hexVal(byte[2]) < 0 THEN 0
         ELSE IF byte[1] = "-" THEN (256 - hexVal(byte[2])) % 256
         ELSE hexVal(byte[2])
    ELSE IF hexVal(byte[1]) < 0 THEN 0
    ELSE IF Len(byte) < 2 \/ hexVal(byte[2]) < 0 THEN hexVal(byte[1])
    ELSE 16 * hexVal(byte[1]) + hexVal(byte[2])

\* new Uint8Array(hexMatch.map(byte => parseInt(byte, 16)))
bufferOf(pairs) == [i \in 1..Len(pairs) |-> byteOf(pairs[i])]

\* new TextDecoder().decode(bytes)
decode(bytes) ==
    [i \in 1..Len(bytes) |->
        IF bytes[i] >= 32 /\ bytes[i] <= 126 THEN Ascii[bytes[i] - 31] ELSE Str_OtherByte]

\* the hex branch from the byte buffer on; an empty hexBytes has a null
\* hexMatch and an empty buffer, null either way
hexRecord(buffer) ==
    IF Len(buffer) < 2 THEN Null
    ELSE IF Len(buffer) < 2 + buffer[2] THEN Null
    ELSE [isNull |-> FALSE,
          critical |-> ((buffer[1] \div 128) % 2 = 1),
          tag |-> decode(SubSeq(buffer, 3, 2 + buffer[2])),
          value |-> decode(SubSeq(buffer, 3 + buffer[2], Len(buffer)))]

\* the hex branch from the split data on
hexParts(ps) ==
    IF Len(ps) < 3 THEN Null ELSE hexRecord(bufferOf(hexMatch(hexBytes(ps))))

\* answer.data.startsWith('\\#')
startsWithHexMark(s) == Len(s) >= 2 /\ s[1] = "\\" /\ s[2] = "#"

\* the handler's parseCAA
handlerParseCAA(answer) ==
    IF answer.type # 257 THEN Null
    ELSE IF startsWithHexMark(answer.data) THEN hexParts(parts(answer.data))
    ELSE caaRecord(matchCAA(answer.data))

\* caaAnswers.map(parseCAA)
mapHandlerParseCAA(answers) == [i \in 1..Len(answers) |-> handlerParseCAA(answers[i])]

\* .filter(x => x !== null)
RECURSIVE filterNonNull(_)
filterNonNull(xs) ==
    IF Len(xs) = 0 THEN <<>> ELSE nonNull(xs[1]) \o filterNonNull(Tail(xs))

\* ------------------------------------------------------------------------
\* services/dns: the DNS-over-HTTPS query
\* ------------------------------------------------------------------------

Str_DnsQueryFailedFor ==
    <<"D", "N", "S", " ", "q", "u", "e", "r", "y", " ", "f", "a", "i", "l", "e", "d", " ", "f", "o", "r", " ">>
Str_OpenParen == <<" ", "(">>
Str_CloseParenColon == <<")", ":", " ">>
Str_A == <<"A">>
Str_NS == <<"N", "S">>
Str_CAA == <<"C", "A", "A">>
Str_BadGateway ==
    <<"B", "a", "d", " ", "G", "a", "t", "e", "w", "a", "y">>
Str_OK == <<"O", "K">>

\* dnsQuery with an answerless body treated like a response that is not ok
dnsQuery_EmptyThrows(name, type, response) ==
    IF ~response.ok \/ Len(response.Answer) = 0
    THEN [threw |-> TRUE,
          error |-> Str_DnsQueryFailedFor \o name \o Str_OpenParen \o type
                        \o Str_CloseParenColon \o response.statusText,
          Answer |-> <<>>]
    ELSE [threw |-> FALSE, error |-> Undefined, Answer |-> response.Answer]

\* dnsQuery(hostname, type) given the resolver's HTTP response: it throws when
\* the response is not ok and returns the parsed body otherwise
dnsQuery(name, type, response) ==
    IF ~response.ok
    THEN [threw |-> TRUE,
          error |-> Str_DnsQueryFailedFor \o name \o Str_OpenParen \o type
                        \o Str_CloseParenColon \o response.statusText,
          Answer |-> <<>>]
    ELSE [threw |-> FALSE, error |-> Undefined, Answer |-> response.Answer]

\* what one call of dnsQuery sent and how the resolver answered
queryRecord(name, type, response) == [name |-> name, type |-> type, ok |-> response.ok]

\* the step with a failure of the parent's query swallowed
getAuthNs_SwallowParent(hostname, r1, r2) ==
    LET q1 == dnsQuery(hostname, Str_NS, r1)
        parent == parentOf(hostname)
        log1 == <<queryRecord(hostname, Str_NS, r1)>>
        log2 == log1 \o <<queryRecord(parent, Str_NS, r2)>>
    IN  IF q1.threw
        THEN [threw |-> TRUE, error |-> q1.error, value |-> <<>>, log |-> log1]
        ELSE IF Len(dataOfType(q1.Answer, 2)) = 0 /\ parent # <<>>
        THEN [threw |-> FALSE, error |-> Undefined,
              value |-> dataOfType(r2.Answer, 2), log |-> log2]
        ELSE [threw |-> FALSE, error |-> Undefined,
              value |-> dataOfType(q1.Answer, 2), log |-> log1]

\* the step returning the answers of its first query after the walk-up
getAuthNs_KeepFirst(hostname, r1, r2) ==
    LET q1 == dnsQuery(hostname, Str_NS, r1)
        parent == parentOf(hostname)
        q2 == dnsQuery(parent, Str_NS, r2)
        log1 == <<queryRecord(hostname, Str_NS, r1)>>
        log2 == log1 \o <<queryRecord(parent, Str_NS, r2)>>
    IN  IF q1.threw
        THEN [threw |-> TRUE, error |-> q1.error, value |-> <<>>, log |-> log1]
        ELSE IF Len(dataOfType(q1.Answer, 2)) = 0 /\ parent # <<>>
        THEN IF q2.threw
             THEN [threw |-> TRUE, error |-> q2.error, value |-> <<>>, log |-> log2]
             ELSE [threw |-> FALSE, error |-> Undefined,
                   value |-> dataOfType(q1.Answer, 2), log |-> log2]
        ELSE [threw |-> FALSE, error |-> Undefined,
              value |-> dataOfType(q1.Answer, 2), log |-> log1]

\* the body of the 'get-auth-ns' step, given the resolver's responses to the
\* first and (if it is made) the second query
getAuthNs(hostname, r1, r2) ==
    LET q1 == dnsQuery(hostname, Str_NS, r1)
        ans1 == dataOfType(q1.Answer, 2)
        parent == parentOf(hostname)
        q2 == dnsQuery(parent, Str_NS, r2)
        log1 == <<queryRecord(hostname, Str_NS, r1)>>
        log2 == log1 \o <<queryRecord(parent, Str_NS, r2)>>
    IN  IF q1.threw
        THEN [threw |-> TRUE, error |-> q1.error, value |-> <<>>, log |-> log1]
        ELSE IF Len(ans1) = 0 /\ parent # <<>>
        THEN IF q2.threw
             THEN [threw |-> TRUE, error |-> q2.error, value |-> <<>>, log |-> log2]
             ELSE [threw |-> FALSE, error |-> Undefined,
                   value |-> dataOfType(q2.Answer, 2), log |-> log2]
        ELSE [threw |-> FALSE, error |-> Undefined, value |-> ans1, log |-> log1]

\* the body of the 'caa-check' step
caaCheck(hostname, r1, r2) ==
    LET q1 == dnsQuery(hostname, Str_CAA, r1)
        parent == parentOf(hostname)
        q2 == dnsQuery(parent, Str_CAA, r2)
        log1 == <<queryRecord(hostname, Str_CAA, r1)>>
        log2 == log1 \o <<queryRecord(parent, Str_CAA, r2)>>
    IN  IF q1.threw
        THEN [threw |-> TRUE, error |-> q1.error, value |-> <<>>, log |-> log1]
        ELSE IF Len(q1.Answer) = 0 /\ parent # <<>>
        THEN IF q2.threw
             THEN [threw |-> TRUE, error |-> q2.error, value |-> <<>>, log |-> log2]
             ELSE [threw |-> FALSE, error |-> Undefined, value |-> q2.Answer, log |-> log2]
        ELSE [threw |-> FALSE, error |-> Undefined, value |-> q1.Answer, log |-> log1]

\* ------------------------------------------------------------------------
\* services/cloudflare: the zone-hold probe
\* ------------------------------------------------------------------------

Str_ns_cloudflare_com ==
    <<"n", "s", ".", "c", "l", "o", "u", "d", "f", "l", "a", "r", "e", ".", "c", "o", "m">>

\* isCloudflareManaged(authNs): some nameserver lies under the platform's
\* nameserver domain
isCloudflareManaged(ns) ==
    \E i \in 1..Len(ns) : includes(toLowerCase(ns[i]), Str_ns_cloudflare_com)

holdResult(status, details) ==
    [zone_hold |-> status, details |-> details, verification_method |-> "undefined"]

NoResult == holdResult("unset", Undefined)

\* the test on the messages alone, without the error code
isHeld_MessagesOnly(errors) ==
    \E i \in 1..Len(errors) :
        \/ includes(toLowerCase(errors[i].message), Str_another_account)
        \/ includes(toLowerCase(errors[i].message), Str_zone_hold)

\* errors.some(e => ...): the hold indicators
isHeld(errors) ==
    \E i \in 1..Len(errors) :
        \/ includes(toLowerCase(errors[i].message), Str_another_account)
        \/ includes(toLowerCase(errors[i].message), Str_zone_hold)
        \/ errors[i].code = 1010

\* errors[0]?.message
firstMessage(errors) == IF Len(errors) = 0 THEN Undefined ELSE errors[1].message

\* the failure branch of checkZoneHold
classifyErrors(errors) ==
    IF isHeld(errors)
    THEN holdResult("yes", firstMessage(errors))
    ELSE holdResult("no", orElse(firstMessage(errors), Str_UnknownError))

\* checkZoneHold given what the platform did with the creation request (post)
\* and, when the creation succeeded, with the deletion request (del)
checkZoneHold(apiToken, zoneId, post, del) ==
    IF ~apiToken \/ ~zoneId
    THEN holdResult("no", Str_MissingCredentials)
    ELSE IF post.kind = "throw" THEN holdResult("no", Str_APIError)
    ELSE IF post.kind = "created"
    THEN IF del = "throw" THEN holdResult("no", Str_APIError)
         ELSE holdResult("no", Undefined)
    ELSE classifyErrors(post.errors)

\* the request deleteCustomHostname(id, ...) sends
deleteCustomHostname(j, id) == [slot |-> j, method |-> "DELETE", id |-> id]

\* the request the probe's creation fetch sends
createCustomHostname(j) == [slot |-> j, method |-> "POST", id |-> 0]

\* the step without the nameserver inference: the probe's result always stands
zoneHoldStep_NoInference(isCfManaged, apiCheck) ==
    [apiCheck EXCEPT !.verification_method = "api"]

\* the body of the 'zone-hold-check' step once checkZoneHold has returned
zoneHoldStep(isCfManaged, apiCheck) ==
    IF isCfManaged
    THEN IF apiCheck.zone_hold = "yes"
         THEN [apiCheck EXCEPT !.verification_method = "api"]
         ELSE [zone_hold |-> "likely", details |-> Str_LikelyDetails,
               verification_method |-> "nameserver_inference"]
    ELSE IF apiCheck.verification_method = "undefined"
         THEN [apiCheck EXCEPT !.verification_method = "api"]
         ELSE apiCheck

\* ------------------------------------------------------------------------
\* The environment: request bodies, resolver responses, platform responses
\* ------------------------------------------------------------------------

Host_Sub ==
    <<"w", "w", "w", ".", "e", "x", ".", "c", "o", "m">>
Host_Tld ==
    <<"c", "o", "m">>
Ip_Plain ==
    <<"1", ".", "2", ".", "3", ".", "4">>
Ip_Proxy ==
    <<"1", "7", "3", ".", "2", "4", "5", ".", "4", "8", ".", "1">>
Name_Cname ==
    <<"c", "d", "n", ".", "e", "x", ".", "n", "e", "t", ".">>
Ns_Plain ==
    <<"n", "s", "1", ".", "e", "x", ".", "n", "e", "t", ".">>
Ns_Cf ==
    <<"a", "d", "a", ".", "n", "s", ".", "c", "l", "o", "u", "d", "f", "l", "a", "r", "e", ".", "c", "o", "m", ".">>
Msg_AnotherAccount ==
    <<"I", "n", " ", "u", "s", "e", " ", "b", "y", " ", "A", "n", "o", "t", "h", "e", "r", " ", "A", "c", "c", "o", "u", "n", "t">>
Msg_AlreadyExists ==
    <<"A", "l", "r", "e", "a", "d", "y", " ", "e", "x", "i", "s", "t", "s">>
Msg_Invalid ==
    <<"b", "a", "d", " ", "h", "o", "s", "t", "n", "a", "m", "e">>
Msg_Forbidden ==
    <<"f", "o", "r", "b", "i", "d", "d", "e", "n">>
Caa_LE ==
    <<"0", " ", "i", "s", "s", "u", "e", " ", "\"", "l", "e", "t", "s", "e", "n", "c", "r", "y", "p", "t", ".", "o", "r", "g", "\"">>
Caa_Goog ==
    <<"1", "2", "8", " ", "i", "s", "s", "u", "e", "w", "i", "l", "d", " ", "p", "k", "i", ".", "g", "o", "o", "g">>
Caa_EmptyQuoted ==
    <<"0", " ", "i", "s", "s", "u", "e", " ", "\"", "\"">>

\* the hostname field of a request body; the empty string stands for a missing one
Inputs == {<<>>, Host_Sub, Host_Tld}
Hostnames == Inputs \ {<<>>}

\* spellings of one hostname that differ in letter case or surrounding whitespace
Host_TldCapital ==
    <<"C", "o", "m">>
Host_TldSpaced ==
    <<" ", "c", "o", "m">>
Spellings == {Host_Tld, Host_TldCapital, Host_TldSpaced}

\* the strings that can be the key of a hosts row
HostKeys == Hostnames \cup Spellings

answer(type, data) == [type |-> type, data |-> data]
okResponse(answers) == [ok |-> TRUE, statusText |-> Str_OK, Answer |-> answers]
NotOk == [ok |-> FALSE, statusText |-> Str_BadGateway, Answer |-> <<>>]

\* what the resolver serves while one check runs: the answers to the A query, to
\* the NS and CAA queries for the hostname and to those for its parent
view(a, ns, nsParent, caa, caaParent) ==
    [a |-> a, ns |-> ns, nsParent |-> nsParent, caa |-> caa, caaParent |-> caaParent]

NoView == view(<<>>, <<>>, <<>>, <<>>, <<>>)

ResolverViews ==
    { NoView,
      view(<<answer(1, Ip_Plain)>>,
           <<>>, <<answer(2, Ns_Plain)>>,
           <<answer(257, Caa_LE)>>, <<>>),
      view(<<answer(5, Name_Cname), answer(1, Ip_Proxy)>>,
           <<answer(2, Ns_Cf)>>, <<>>,
           <<>>, <<answer(257, Caa_Goog)>>),
      view(<<answer(1, Ip_Plain)>>,
           <<answer(2, Ns_Plain)>>, <<>>,
           <<answer(257, Caa_EmptyQuoted)>>, <<>>) }

\* the responses the resolver can give to one query: the answers, or a failure
responsesFor(answers) == {NotOk, okResponse(answers)}

apiError(message, code) == [message |-> message, code |-> code]

\* the errors array of a failed creation response
ErrorLists ==
    { <<>>,
      <<apiError(Msg_Invalid, 1406)>>,
      <<apiError(Msg_Invalid, 1406), apiError(Msg_AnotherAccount, 1414)>>,
      <<apiError(Msg_AlreadyExists, 1407)>>,
      <<apiError(Msg_Forbidden, 1010)>> }

NoData == [kind |-> "none", errors |-> <<>>]
postThrow == [kind |-> "throw", errors |-> <<>>]
postCreated == [kind |-> "created", errors |-> <<>>]
postFailed(errors) == [kind |-> "failed", errors |-> errors]

\* the environment bindings CLOUDFLARE_API_TOKEN and CLOUDFLARE_ZONE_ID: set or not
Environments ==
    { [token |-> TRUE, zone |-> TRUE],
      [token |-> FALSE, zone |-> TRUE],
      [token |-> TRUE, zone |-> FALSE] }

\* ------------------------------------------------------------------------
\* State
\* ------------------------------------------------------------------------

VARIABLES
    pc,             \* per submission: where the request or its workflow stands
    attempt,        \* retries already used by the step being executed
    hostname,       \* event.payload.hostname
    aRecord,        \* output of 'dns-lookup': the Answer array
    cfCheck,        \* output of 'check-cf-ip'
    authNs,         \* output of 'get-auth-ns'
    caaCheckResult, \* output of 'caa-check'
    decoded,        \* caaCheckResult.map(a => parseCAAHelper(a)), before the filter
    created,        \* data.result.id of the probe's creation, 0 if none
    data,           \* the probe's creation response, or that its fetch threw
    apiCheck,       \* what checkZoneHold returned
    zoneHoldRes,    \* output of 'zone-hold-check'
    err,            \* e.message of the error caught by run()
    jobs,           \* table jobs, by id
    hosts,          \* table hosts, a set of rows
    account,        \* custom hostnames the test account holds on the platform
    nextId,         \* the id the platform gives the next resource
    env,            \* the credential bindings
    resolver,       \* what the resolver serves while the check runs
    queries,        \* the DNS queries of the last attempt of a DNS step
    dnsFinalFail,   \* a DNS query was answered not ok on the last granted attempt
    requests,       \* the requests sent to the platform API
    lastWriter      \* per hostname: whose upsert the hosts row comes from, 0 if none

locals == <<hostname, aRecord, cfCheck, authNs, caaCheckResult, decoded, created, data, apiCheck,
            zoneHoldRes>>
control == <<pc, attempt, err>>
db == <<jobs, hosts, lastWriter>>
platform == <<account, nextId, requests>>
dnsGhost == <<resolver, queries, dnsFinalFail>>
vars == <<pc, attempt, hostname, aRecord, cfCheck, authNs, caaCheckResult, decoded, created, data,
          apiCheck, zoneHoldRes, err, jobs, hosts, account, nextId, env, resolver,
          queries, dnsFinalFail, requests, lastWriter>>

NoJob == [status |-> "absent", hostname |-> <<>>, result |-> Null]

Init ==
    /\ pc = [j \in Slots |-> "idle"]
    /\ attempt = [j \in Slots |-> 0]
    /\ hostname = [j \in Slots |-> <<>>]
    /\ aRecord = [j \in Slots |-> <<>>]
    /\ cfCheck = [j \in Slots |-> FALSE]
    /\ authNs = [j \in Slots |-> <<>>]
    /\ caaCheckResult = [j \in Slots |-> <<>>]
    /\ decoded = [j \in Slots |-> <<>>]
    /\ created = [j \in Slots |-> 0]
    /\ data = [j \in Slots |-> NoData]
    /\ apiCheck = [j \in Slots |-> NoResult]
    /\ zoneHoldRes = [j \in Slots |-> NoResult]
    /\ err = [j \in Slots |-> Undefined]
    /\ jobs = [j \in Slots |-> NoJob]
    /\ hosts = {}
    /\ account = {}
    /\ nextId = 1
    /\ env \in Environments
    /\ resolver = [j \in Slots |-> NoView]
    /\ queries = [j \in Slots |-> <<>>]
    /\ dnsFinalFail = [j \in Slots |-> FALSE]
    /\ requests = {}
    /\ lastWriter = [h \in HostKeys |-> 0]

\* ------------------------------------------------------------------------
\* The step executor: step.do retries a throwing step, then lets it throw
\* ------------------------------------------------------------------------

Str_D1Error ==
    <<"D", "1", "_", "E", "R", "R", "O", "R">>
Str_CheckFailed ==
    <<"C", "H", "E", "C", "K", " ", "c", "o", "n", "s", "t", "r", "a", "i", "n", "t", " ", "f", "a", "i", "l", "e", "d", ":", " ", "z", "o", "n", "e", "_", "h", "o", "l", "d">>
Str_TypeError ==
    <<"C", "a", "n", "n", "o", "t", " ", "r", "e", "a", "d", " ", "p", "r", "o", "p", "e", "r", "t", "i", "e", "s", " ", "o", "f", " ", "u", "n", "d", "e", "f", "i", "n", "e", "d", " ", "(", "r", "e", "a", "d", "i", "n", "g", " ", "'", "i", "n", "c", "l", "u", "d", "e", "s", "'", ")">>

\* where control goes when run()'s try block, or its catch block, sees a throw
catchOf(step) == IF step = "handle-failure" THEN "errored" ELSE "handle-failure"

\* the step named `step` threw e: it is run again, or the throw reaches run()
Throw(j, step, e) ==
    /\ pc' = [pc EXCEPT ![j] = IF attempt[j] < MaxRetries THEN step ELSE catchOf(step)]
    /\ attempt' = [attempt EXCEPT ![j] = IF attempt[j] < MaxRetries THEN @ + 1 ELSE 0]
    /\ err' = [err EXCEPT ![j] = IF attempt[j] < MaxRetries THEN @ ELSE e]

\* the step returned: the next step starts with its retries unused
Goto(j, next) ==
    /\ pc' = [pc EXCEPT ![j] = next]
    /\ attempt' = [attempt EXCEPT ![j] = 0]
    /\ UNCHANGED err

\* ------------------------------------------------------------------------
\* Database statements
\* ------------------------------------------------------------------------

\* INSERT INTO jobs (id, hostname, status, ...) VALUES (?, ?, 'pending', ...)
insertJob(t, id, h) ==
    [t EXCEPT ![id] = [status |-> "pending", hostname |-> h, result |-> Null]]

\* the statement without its WHERE clause: every job row is set running
updateJobRunning_NoWhere(t, id) ==
    [k \in DOMAIN t |->
        IF t[k].status # "absent" THEN [t[k] EXCEPT !.status = "running"] ELSE t[k]]

\* UPDATE jobs SET status = 'running' WHERE id = ?
updateJobRunning(t, id) ==
    [k \in DOMAIN t |->
        IF k = id /\ t[k].status # "absent" THEN [t[k] EXCEPT !.status = "running"] ELSE t[k]]

\* the update of status and result without its WHERE clause
updateJobResult_NoWhere(t, id, status, result) ==
    [k \in DOMAIN t |->
        IF t[k].status # "absent"
        THEN [t[k] EXCEPT !.status = status, !.result = result]
        ELSE t[k]]

\* UPDATE jobs SET status = ?, result = ? WHERE id = ?
updateJobResult(t, id, status, result) ==
    [k \in DOMAIN t |->
        IF k = id /\ t[k].status # "absent"
        THEN [t[k] EXCEPT !.status = status, !.result = result]
        ELSE t[k]]

\* the CHECK constraints of table hosts
hostsChecks(row) ==
    /\ row.is_proxied \in {"yes", "no"}
    /\ row.ssl_google \in {"allowed", "not_allowed"}
    /\ row.ssl_ssl_com \in {"allowed", "not_allowed"}
    /\ row.ssl_lets_encrypt \in {"allowed", "not_allowed"}
    /\ row.zone_hold \in {"yes", "no"}

\* the upsert with zone_hold left out of the DO UPDATE SET list
upsertHost_NoZoneHold(t, row) ==
    IF \E r \in t : r.hostname = row.hostname
    THEN { IF r.hostname = row.hostname
           THEN [r EXCEPT !.authoritative_ns = row.authoritative_ns,
                          !.is_proxied = row.is_proxied,
                          !.dns_type = row.dns_type,
                          !.dns_result = row.dns_result,
                          !.ssl_google = row.ssl_google,
                          !.ssl_ssl_com = row.ssl_ssl_com,
                          !.ssl_lets_encrypt = row.ssl_lets_encrypt]
           ELSE r : r \in t }
    ELSE t \cup {row}

\* the upsert as INSERT ... ON CONFLICT(hostname) DO NOTHING
upsertHost_DoNothing(t, row) ==
    IF \E r \in t : r.hostname = row.hostname THEN t ELSE t \cup {row}

\* INSERT INTO hosts ... ON CONFLICT(hostname) DO UPDATE SET <every other column>
upsertHost(t, row) ==
    IF \E r \in t : r.hostname = row.hostname
    THEN { IF r.hostname = row.hostname
           THEN [r EXCEPT !.authoritative_ns = row.authoritative_ns,
                          !.is_proxied = row.is_proxied,
                          !.dns_type = row.dns_type,
                          !.dns_result = row.dns_result,
                          !.ssl_google = row.ssl_google,
                          !.ssl_ssl_com = row.ssl_ssl_com,
                          !.ssl_lets_encrypt = row.ssl_lets_encrypt,
                          !.zone_hold = row.zone_hold]
           ELSE r : r \in t }
    ELSE t \cup {row}

\* ------------------------------------------------------------------------
\* Values the workflow computes between its steps
\* ------------------------------------------------------------------------

\* dnsResult joined from the data of every answer, whatever its type
dnsResultOf_AllTypes(a) ==
    IF Len(a) > 0 THEN join([i \in 1..Len(a) |-> a[i].data], Str_CommaSpace) ELSE <<>>

dnsResultOf(a) == IF Len(a) > 0 THEN join(dataOfType(a, 1), Str_CommaSpace) ELSE <<>>
isProxiedOf(cf) == IF cf THEN "yes" ELSE "no"
sslGoogle(caa) == checkCaa(parsedCaasOf(caa), Str_pki_goog)
sslSslCom(caa) == checkCaa(parsedCaasOf(caa), Str_ssl_com)
sslLetsEncrypt(caa) == checkCaa(parsedCaasOf(caa), Str_letsencrypt_org)

\* evaluating the three verdicts raises a TypeError
verdictsThrow(caa) ==
    "throw" \in {sslGoogle(caa), sslSslCom(caa), sslLetsEncrypt(caa)}

\* the result with is_proxied left at its initial value
finResult_ProxiedUnset(j) ==
    [isNull |-> FALSE,
     hostname |-> hostname[j],
     authoritative_ns |-> authNs[j],
     is_proxied |-> "no",
     dns_type |-> "A",
     dns_result |-> dnsResultOf(aRecord[j]),
     ssl_google |-> sslGoogle(caaCheckResult[j]),
     ssl_ssl_com |-> sslSslCom(caaCheckResult[j]),
     ssl_lets_encrypt |-> sslLetsEncrypt(caaCheckResult[j]),
     zone_hold |-> zoneHoldRes[j].zone_hold]

finResult(j) ==
    [isNull |-> FALSE,
     hostname |-> hostname[j],
     authoritative_ns |-> authNs[j],
     is_proxied |-> isProxiedOf(cfCheck[j]),
     dns_type |-> "A",
     dns_result |-> dnsResultOf(aRecord[j]),
     ssl_google |-> sslGoogle(caaCheckResult[j]),
     ssl_ssl_com |-> sslSslCom(caaCheckResult[j]),
     ssl_lets_encrypt |-> sslLetsEncrypt(caaCheckResult[j]),
     zone_hold |-> zoneHoldRes[j].zone_hold]

\* the values bound to the hosts upsert
hostsRow(j) ==
    [hostname |-> hostname[j],
     authoritative_ns |-> join(authNs[j], Str_CommaSpace),
     is_proxied |-> isProxiedOf(cfCheck[j]),
     dns_type |-> "A",
     dns_result |-> dnsResultOf(aRecord[j]),
     ssl_google |-> sslGoogle(caaCheckResult[j]),
     ssl_ssl_com |-> sslSslCom(caaCheckResult[j]),
     ssl_lets_encrypt |-> sslLetsEncrypt(caaCheckResult[j]),
     zone_hold |-> zoneHoldRes[j].zone_hold]

\* JSON.stringify({ error: e.message })
errorResult(message) == [isNull |-> FALSE, error |-> message]

\* ------------------------------------------------------------------------
\* POST /api/check-host
\* ------------------------------------------------------------------------

\* positions in which a submission has nothing left to do
Finished == {"rejected", "insert-failed", "create-failed", "done", "errored"}

\* submissions are numbered in the order they are made, and one is made only
\* when the earlier ones are over: the checks run one at a time
Turn(j) == \A k \in Slots : k < j => pc[k] \in Finished

\* the request with the job row inserted before the hostname is tested
SubmitReject_InsertsFirst(j) ==
    /\ pc[j] = "idle"
    /\ pc' = [pc EXCEPT ![j] = "rejected"]
    /\ jobs' = insertJob(jobs, j, <<>>)
    /\ UNCHANGED <<attempt, err, locals, hosts, lastWriter, platform, env, dnsGhost>>

\* if (!hostname) return 400
SubmitReject(j) ==
    /\ pc[j] = "idle"
    /\ \E h \in Inputs :
        /\ h = <<>>
        /\ pc' = [pc EXCEPT ![j] = "rejected"]
    /\ UNCHANGED <<attempt, err, locals, db, platform, env, dnsGhost>>

\* the job row is inserted; a failing INSERT ends the request with an error
SubmitInsert(j) ==
    /\ pc[j] = "idle"
    /\ \E h \in Inputs, fault \in BOOLEAN :
        /\ h # <<>>
        /\ IF fault
           THEN /\ pc' = [pc EXCEPT ![j] = "insert-failed"]
                /\ UNCHANGED <<hostname, jobs>>
           ELSE /\ pc' = [pc EXCEPT ![j] = "inserted"]
                /\ hostname' = [hostname EXCEPT ![j] = h]
                /\ jobs' = insertJob(jobs, j, h)
    /\ UNCHANGED <<attempt, err, aRecord, cfCheck, authNs, caaCheckResult, decoded, created,
                   data, apiCheck, zoneHoldRes, hosts, lastWriter, platform, env, dnsGhost>>

\* HOST_CHECK_WORKFLOW.create: the instance starts, or the call fails
WorkflowCreate(j) ==
    /\ pc[j] = "inserted"
    /\ \E fault \in BOOLEAN :
        IF fault
        THEN /\ pc' = [pc EXCEPT ![j] = "create-failed"]
             /\ hostname' = [hostname EXCEPT ![j] = <<>>]
             /\ UNCHANGED resolver
        ELSE /\ pc' = [pc EXCEPT ![j] = "update-job-running"]
             /\ \E v \in ResolverViews : resolver' = [resolver EXCEPT ![j] = v]
             /\ UNCHANGED hostname
    /\ UNCHANGED <<attempt, err, aRecord, cfCheck, authNs, caaCheckResult, decoded, created,
                   data, apiCheck, zoneHoldRes, db, platform, env, queries, dnsFinalFail>>

\* DELETE /api/results
ClearResults ==
    /\ hosts' = {}
    /\ lastWriter' = [h \in HostKeys |-> 0]
    /\ UNCHANGED <<control, locals, jobs, platform, env, dnsGhost>>

\* ------------------------------------------------------------------------
\* HostCheckWorkflow.run, one action per await
\* ------------------------------------------------------------------------

\* run() is over: its variables are gone
Forget(j) ==
    /\ hostname' = [hostname EXCEPT ![j] = <<>>]
    /\ aRecord' = [aRecord EXCEPT ![j] = <<>>]
    /\ cfCheck' = [cfCheck EXCEPT ![j] = FALSE]
    /\ authNs' = [authNs EXCEPT ![j] = <<>>]
    /\ caaCheckResult' = [caaCheckResult EXCEPT ![j] = <<>>]
    /\ decoded' = [decoded EXCEPT ![j] = <<>>]
    /\ created' = [created EXCEPT ![j] = 0]
    /\ data' = [data EXCEPT ![j] = NoData]
    /\ apiCheck' = [apiCheck EXCEPT ![j] = NoResult]
    /\ zoneHoldRes' = [zoneHoldRes EXCEPT ![j] = NoResult]
    /\ resolver' = [resolver EXCEPT ![j] = NoView]
    /\ queries' = [queries EXCEPT ![j] = <<>>]

ForgetIfOver(j) ==
    IF pc'[j] \in {"done", "errored"}
    THEN Forget(j)
    ELSE UNCHANGED <<locals, resolver, queries>>

StepUpdateJobRunning(j) ==
    /\ pc[j] = "update-job-running"
    /\ \E fault \in BOOLEAN :
        IF fault
        THEN Throw(j, "update-job-running", Str_D1Error) /\ UNCHANGED jobs
        ELSE Goto(j, "dns-lookup") /\ jobs' = updateJobRunning(jobs, j)
    /\ UNCHANGED <<locals, hosts, lastWriter, platform, env, dnsGhost>>

\* the ghost record of a DNS step's attempt
LogDns(j, log) ==
    /\ queries' = [queries EXCEPT ![j] = log]
    /\ dnsFinalFail' = [dnsFinalFail EXCEPT ![j] =
            @ \/ (attempt[j] >= MaxRetries /\ \E i \in 1..Len(log) : ~log[i].ok)]

StepDnsLookup(j) ==
    /\ pc[j] = "dns-lookup"
    /\ \E r \in responsesFor(resolver[j].a) :
        LET q == dnsQuery(hostname[j], Str_A, r)
        IN  /\ LogDns(j, <<queryRecord(hostname[j], Str_A, r)>>)
            /\ IF q.threw
               THEN Throw(j, "dns-lookup", q.error) /\ UNCHANGED aRecord
               ELSE /\ aRecord' = [aRecord EXCEPT ![j] = q.Answer]
                    /\ Goto(j, IF Len(q.Answer) > 0 THEN "check-cf-ip" ELSE "get-auth-ns")
    /\ UNCHANGED <<hostname, cfCheck, authNs, caaCheckResult, decoded, created, data, apiCheck,
                   zoneHoldRes, db, platform, env, resolver>>

StepCheckCfIp(j) ==
    /\ pc[j] = "check-cf-ip"
    /\ cfCheck' = [cfCheck EXCEPT ![j] = someCloudflareIp(dataOfType(aRecord[j], 1))]
    /\ Goto(j, "get-auth-ns")
    /\ UNCHANGED <<hostname, aRecord, authNs, caaCheckResult, decoded, created, data, apiCheck,
                   zoneHoldRes, db, platform, env, dnsGhost>>

StepGetAuthNs(j) ==
    /\ pc[j] = "get-auth-ns"
    /\ \E r1 \in responsesFor(resolver[j].ns), r2 \in responsesFor(resolver[j].nsParent) :
        LET s == getAuthNs(hostname[j], r1, r2)
        IN  /\ LogDns(j, s.log)
            /\ IF s.threw
               THEN Throw(j, "get-auth-ns", s.error) /\ UNCHANGED authNs
               ELSE authNs' = [authNs EXCEPT ![j] = s.value] /\ Goto(j, "caa-check")
    /\ UNCHANGED <<hostname, aRecord, cfCheck, caaCheckResult, decoded, created, data, apiCheck,
                   zoneHoldRes, db, platform, env, resolver>>

\* the step, then the decoding and the three verdicts computed in run() itself:
\* a TypeError raised there is caught by run() without any retry
StepCaaCheck(j) ==
    /\ pc[j] = "caa-check"
    /\ \E r1 \in responsesFor(resolver[j].caa), r2 \in responsesFor(resolver[j].caaParent) :
        LET s == caaCheck(hostname[j], r1, r2)
        IN  /\ LogDns(j, s.log)
            /\ IF s.threw
               THEN Throw(j, "caa-check", s.error) /\ UNCHANGED <<caaCheckResult, decoded>>
               ELSE /\ caaCheckResult' = [caaCheckResult EXCEPT ![j] = s.value]
                    /\ decoded' = [decoded EXCEPT ![j] = mapParseCAA(s.value)]
                    /\ IF verdictsThrow(s.value)
                       THEN /\ pc' = [pc EXCEPT ![j] = "handle-failure"]
                            /\ attempt' = [attempt EXCEPT ![j] = 0]
                            /\ err' = [err EXCEPT ![j] = Str_TypeError]
                       ELSE Goto(j, "zone-hold-check")
    /\ UNCHANGED <<hostname, aRecord, cfCheck, authNs, created, data, apiCheck,
                   zoneHoldRes, db, platform, env, resolver>>

\* the combination made with the nameservers another check resolved
ProbeReturns_OtherNs(j, res) ==
    /\ apiCheck' = [apiCheck EXCEPT ![j] = res]
    /\ zoneHoldRes' = [zoneHoldRes EXCEPT ![j] =
                            zoneHoldStep(isCloudflareManaged(authNs[3 - j]), res)]
    /\ Goto(j, "save-to-db")

\* the probe returned: the step combines it with the nameserver inference
ProbeReturns(j, res) ==
    /\ apiCheck' = [apiCheck EXCEPT ![j] = res]
    /\ zoneHoldRes' = [zoneHoldRes EXCEPT ![j] =
                            zoneHoldStep(isCloudflareManaged(authNs[j]), res)]
    /\ Goto(j, "save-to-db")

\* what the platform can do with a creation request
PostOutcomes == {postThrow, postCreated} \cup {postFailed(e) : e \in ErrorLists}

\* checkZoneHold up to the response to its creation request
StepZoneHoldCheck(j) ==
    /\ pc[j] = "zone-hold-check"
    /\ IF ~env.token \/ ~env.zone
       THEN /\ ProbeReturns(j, checkZoneHold(env.token, env.zone, postThrow, "none"))
            /\ UNCHANGED <<created, data, platform>>
       ELSE \E post \in PostOutcomes :
            /\ requests' = requests \cup {createCustomHostname(j)}
            /\ data' = [data EXCEPT ![j] = post]
            /\ IF post.kind = "created"
               THEN /\ \A r \in account : r.hostname # hostname[j]
                    /\ account' = account \cup {[id |-> nextId, hostname |-> hostname[j]]}
                    /\ nextId' = nextId + 1
                    /\ created' = [created EXCEPT ![j] = nextId]
                    /\ pc' = [pc EXCEPT ![j] = "zone-hold-delete"]
                    /\ UNCHANGED <<attempt, err, apiCheck, zoneHoldRes>>
               ELSE /\ ProbeReturns(j, checkZoneHold(env.token, env.zone, post, "none"))
                    /\ UNCHANGED <<created, account, nextId>>
    /\ UNCHANGED <<hostname, aRecord, cfCheck, authNs, caaCheckResult, decoded, db, env, dnsGhost>>

\* the deletion request of the probe: answered ok, answered with an error status,
\* or the fetch throws
StepZoneHoldDelete(j) ==
    /\ pc[j] = "zone-hold-delete"
    /\ \E del \in {"ok", "http-error", "throw"} :
        /\ requests' = requests \cup {deleteCustomHostname(j, created[j])}
        /\ account' = IF del = "ok" THEN {r \in account : r.id # created[j]} ELSE account
        /\ ProbeReturns(j, checkZoneHold(env.token, env.zone, postCreated, del))
    /\ UNCHANGED <<hostname, aRecord, cfCheck, authNs, caaCheckResult, decoded, created, data, db,
                   nextId, env, dnsGhost>>

\* 'save-to-db', first statement: the hosts upsert
StepSaveHosts(j) ==
    /\ pc[j] = "save-to-db"
    /\ \E fault \in BOOLEAN :
        IF fault
        THEN Throw(j, "save-to-db", Str_D1Error) /\ UNCHANGED <<hosts, lastWriter>>
        ELSE IF ~hostsChecks(hostsRow(j))
        THEN Throw(j, "save-to-db", Str_CheckFailed) /\ UNCHANGED <<hosts, lastWriter>>
        ELSE /\ hosts' = upsertHost(hosts, hostsRow(j))
             /\ lastWriter' = [lastWriter EXCEPT ![hostname[j]] = j]
             /\ pc' = [pc EXCEPT ![j] = "save-job"]
             /\ UNCHANGED <<attempt, err>>
    /\ UNCHANGED <<locals, jobs, platform, env, dnsGhost>>

\* 'save-to-db', second statement: the job is completed
StepSaveJob(j) ==
    /\ pc[j] = "save-job"
    /\ \E fault \in BOOLEAN :
        IF fault
        THEN Throw(j, "save-to-db", Str_D1Error) /\ UNCHANGED jobs
        ELSE /\ jobs' = updateJobResult(jobs, j, "completed", finResult(j))
             /\ Goto(j, "done")
    /\ ForgetIfOver(j)
    /\ UNCHANGED <<hosts, lastWriter, platform, env, dnsFinalFail>>

\* the catch block of run()
StepHandleFailure(j) ==
    /\ pc[j] = "handle-failure"
    /\ \E fault \in BOOLEAN :
        IF fault
        THEN Throw(j, "handle-failure", Str_D1Error) /\ UNCHANGED jobs
        ELSE /\ jobs' = updateJobResult(jobs, j, "failed", errorResult(err[j]))
             /\ Goto(j, "done")
    /\ ForgetIfOver(j)
    /\ UNCHANGED <<hosts, lastWriter, platform, env, dnsFinalFail>>

Next ==
    \/ ClearResults
    \/ \E j \in Slots :
        \/ Turn(j) /\ SubmitReject(j)
        \/ Turn(j) /\ SubmitInsert(j)
        \/ WorkflowCreate(j)
        \/ StepUpdateJobRunning(j)
        \/ StepDnsLookup(j)
        \/ StepCheckCfIp(j)
        \/ StepGetAuthNs(j)
        \/ StepCaaCheck(j)
        \/ StepZoneHoldCheck(j)
        \/ StepZoneHoldDelete(j)
        \/ StepSaveHosts(j)
        \/ StepSaveJob(j)
        \/ StepHandleFailure(j)

Spec == Init /\ [][Next]_vars

\* ------------------------------------------------------------------------
\* Properties
\* ------------------------------------------------------------------------

\* the status changes the lifecycle allows
Lifecycle ==
    { <<"absent", "pending">>, <<"pending", "running">>, <<"running", "completed">>,
      <<"pending", "failed">>, <<"running", "failed">> }

Terminal == {"completed", "failed"}

\* the hold determination is in hand: the 'zone-hold-check' step has returned
\* and run() has not ended
Determined(j) == pc[j] \in {"save-to-db", "save-job"}

\* C1: a job row is created with status pending, by the submission handler;
\* every later change of its status is pending -> running, running -> completed,
\* or pending/running -> failed; and no step changes the status or the result of
\* a row that is completed or failed.
C1_StatusLifecycle ==
    [][\A j \in Slots :
        /\ jobs'[j].status # jobs[j].status =>
                <<jobs[j].status, jobs'[j].status>> \in Lifecycle
        /\ (jobs[j].status = "absent" /\ jobs'[j].status # "absent") =>
                (pc[j] = "idle" /\ pc'[j] = "inserted" /\ jobs'[j].result = Null)
        /\ jobs[j].status \in Terminal => jobs'[j] = jobs[j]]_vars

\* C1, witness: one job has been completed and, after it, another has failed
C1_Witness ==
    /\ jobs[1].status = "completed"
    /\ jobs[2].status = "failed"

\* C2: whenever a job is in status failed, no hosts row comes from an upsert
\* that job's execution made.
C2_NoRowFromFailedJob ==
    \A j \in Slots : jobs[j].status = "failed" => \A h \in Hostnames : lastWriter[h] # j

\* the last attempt of the DNS step job j is in had a query answered not ok
DnsFailed(j) == \E i \in 1..Len(queries[j]) : ~queries[j][i].ok

\* positions of run() once its try block has been left
Aborted == {"handle-failure", "done", "errored"}

IsDnsError(e) ==
    /\ e # Undefined
    /\ Len(e) >= Len(Str_DnsQueryFailedFor)
    /\ SubSeq(e, 1, Len(Str_DnsQueryFailedFor)) = Str_DnsQueryFailedFor

JobsOf(h) == {j \in Slots : jobs[j].status # "absent" /\ jobs[j].hostname = h}

\* the latest of a non-empty set of jobs
Latest(js) == CHOOSE j \in js : \A k \in js : k <= j

\* the hosts row holds the result fields job j computed
RowHolds(r, res) ==
    /\ r.authoritative_ns = join(res.authoritative_ns, Str_CommaSpace)
    /\ r.is_proxied = res.is_proxied
    /\ r.dns_type = res.dns_type
    /\ r.dns_result = res.dns_result
    /\ r.ssl_google = res.ssl_google
    /\ r.ssl_ssl_com = res.ssl_ssl_com
    /\ r.ssl_lets_encrypt = res.ssl_lets_encrypt
    /\ r.zone_hold = res.zone_hold

C5_CombinationRule ==
    \A j \in Slots : Determined(j) =>
        IF isCloudflareManaged(authNs[j])
        THEN /\ apiCheck[j].zone_hold = "no" =>
                    /\ zoneHoldRes[j].zone_hold = "likely"
                    /\ zoneHoldRes[j].verification_method = "nameserver_inference"
             /\ apiCheck[j].zone_hold = "yes" =>
                    /\ zoneHoldRes[j].zone_hold = "yes"
                    /\ zoneHoldRes[j].verification_method = "api"
        ELSE /\ zoneHoldRes[j].zone_hold = apiCheck[j].zone_hold
             /\ zoneHoldRes[j].details = apiCheck[j].details
             /\ zoneHoldRes[j].verification_method = "api"

\* C5, witness: a check with platform-managed nameservers was determined likely
\* and its row refused, and a later one with such nameservers is determined yes
C5_Witness ==
    /\ Determined(2)
    /\ isCloudflareManaged(authNs[2])
    /\ apiCheck[2].zone_hold = "yes"
    /\ zoneHoldRes[2].verification_method = "api"
    /\ jobs[1].status = "failed"
    /\ jobs[1].result = errorResult(Str_CheckFailed)

\* C6: with the token or the zone identifier missing, the determination is no
\* with the detail "Missing credentials", whatever the nameservers, and the
\* check sends no request to the platform.
C6_MissingCredentials ==
    \A j \in Slots : (Determined(j) /\ (~env.token \/ ~env.zone)) =>
        /\ zoneHoldRes[j].zone_hold = "no"
        /\ zoneHoldRes[j].details = Str_MissingCredentials
        /\ \A r \in requests : r.slot # j

\* C7: when the probe's creation request fails in transport, the determination
\* is no with the detail "API Error" and the check is not aborted by it: the
\* hosts upsert of the result is not refused.
C7_ProbeFailureNeverAborts ==
    \A j \in Slots : data[j].kind = "throw" =>
        /\ Determined(j) =>
                /\ zoneHoldRes[j].zone_hold = "no"
                /\ zoneHoldRes[j].details = Str_APIError
        /\ ~(pc[j] = "handle-failure" /\ err[j] = Str_CheckFailed)

\* C8: when the creation succeeded, the probe has sent the deletion request for
\* the created id by the time it returns, and it returns no without a detail
\* whatever became of the deletion.
C8_RollbackNotSurfaced ==
    \A j \in Slots : (Determined(j) /\ created[j] # 0) =>
        /\ deleteCustomHostname(j, created[j]) \in requests
        /\ apiCheck[j].zone_hold = "no"
        /\ apiCheck[j].details = Undefined

\* the indicators of a hold the failure branch is specified to look for
Str_already_exists ==
    <<"a", "l", "r", "e", "a", "d", "y", " ", "e", "x", "i", "s", "t", "s">>
Str_is_active ==
    <<"i", "s", " ", "a", "c", "t", "i", "v", "e">>

HoldIndicator(message) ==
    \/ includes(toLowerCase(message), Str_another_account)
    \/ includes(toLowerCase(message), Str_zone_hold)
    \/ includes(toLowerCase(message), Str_already_exists)
    \/ includes(toLowerCase(message), Str_is_active)

\* the messages of an errors array
Messages(errors) == {errors[i].message : i \in 1..Len(errors)}

\* C9: when the creation failed and a returned message contains "already
\* exists" in any letter case, the workflow's determination is {yes, api},
\* whatever the nameservers.
C9_AlreadyExistsIsHold ==
    \A j \in Slots :
        (/\ Determined(j)
         /\ data[j].kind = "failed"
         /\ \E m \in Messages(data[j].errors) :
                includes(toLowerCase(m), Str_already_exists)) =>
            /\ zoneHoldRes[j].zone_hold = "yes"
            /\ zoneHoldRes[j].verification_method = "api"

C11_HoldStatusAccepted ==
    \A j \in Slots : pc[j] = "save-to-db" => hostsChecks(hostsRow(j))

\* the three fixed authority identifiers
Authorities == {Str_pki_goog, Str_ssl_com, Str_letsencrypt_org}

\* the verdict the policy prescribes for a record set and an authority
PolicyVerdict(records, domain) ==
    IF Len(records) = 0 THEN "allowed"
    ELSE IF \E i \in 1..Len(records) :
                /\ records[i].tag \in {Str_issue, Str_issuewild}
                /\ includes(records[i].value, domain)
         THEN "allowed"
         ELSE "not_allowed"

\* C12: for the record set decoded from the CAA answers of a check and each of
\* the three authorities, the verdict computed is allowed when the set is
\* empty, and otherwise allowed exactly when some record has the tag issue or
\* issuewild and a value containing the authority's identifier.
C12_PolicyVerdicts ==
    \A j \in Slots : \A d \in Authorities :
        checkCaa(parsedCaasOf(caaCheckResult[j]), d)
            = PolicyVerdict(parsedCaasOf(caaCheckResult[j]), d)

\* ------------------------------------------------------------------------
\* Proxy classification over addresses at and around the table's ranges
\* ------------------------------------------------------------------------

\* the decimal text of an octet, and the dotted-decimal text of four octets
octetText(n) ==
    IF n < 10 THEN <<DigitChars[n + 1]>>
    ELSE IF n < 100 THEN <<DigitChars[(n \div 10) + 1], DigitChars[(n % 10) + 1]>>
    ELSE <<DigitChars[(n \div 100) + 1], DigitChars[((n \div 10) % 10) + 1],
           DigitChars[(n % 10) + 1]>>

dotted(o) ==
    octetText(o[1]) \o Str_Dot \o octetText(o[2]) \o Str_Dot \o octetText(o[3])
        \o Str_Dot \o octetText(o[4])

\* the upper 24 bits of an address read as an unsigned number, first octet
\* most significant, and the address with given upper 24 bits and last octet
top24(o) == o[1] * 65536 + o[2] * 256 + o[3]
fromTop24(t, d) == <<t \div 65536, (t \div 256) % 256, t % 256, d>>

\* a range of prefix length bits <= 24 holds 2^(24 - bits) values of the upper
\* 24 bits, from rangeLow on
rangeSpan(cidr) == 2 ^ (24 - cidr[5])
rangeLow(cidr) == top24(cidr) - (top24(cidr) % rangeSpan(cidr))

\* the address lies in the range, as unsigned numbers
InRange(o, cidr) ==
    /\ rangeLow(cidr) <= top24(o)
    /\ top24(o) < rangeLow(cidr) + rangeSpan(cidr)

InSomeRange(o) == \E i \in 1..Len(CLOUDFLARE_IPV4) : InRange(o, CLOUDFLARE_IPV4[i])

\* the first and last address of each range and their outer neighbours
FirstOf(cidr) == fromTop24(rangeLow(cidr), 0)
LastOf(cidr) == fromTop24(rangeLow(cidr) + rangeSpan(cidr) - 1, 255)
BelowOf(cidr) == fromTop24(rangeLow(cidr) - 1, 255)
AboveOf(cidr) == fromTop24(rangeLow(cidr) + rangeSpan(cidr), 0)

TestOctets ==
    UNION { {FirstOf(CLOUDFLARE_IPV4[i]), LastOf(CLOUDFLARE_IPV4[i]),
             BelowOf(CLOUDFLARE_IPV4[i]), AboveOf(CLOUDFLARE_IPV4[i])} :
            i \in 1..Len(CLOUDFLARE_IPV4) }
        \cup {<<0, 0, 0, 0>>, <<1, 2, 3, 4>>, <<127, 255, 255, 255>>, <<128, 0, 0, 0>>,
              <<255, 255, 255, 255>>}

Ip_V6 ==
    <<"2", "6", "0", "6", ":", "4", "7", "0", "0", ":", ":", "1", "1", "1", "1">>
Ip_V4Port ==
    <<"1", "7", "3", ".", "2", "4", "5", ".", "4", "8", ".", "1", ":", "8", "0">>

\* the data of the A answer served to a check
TestAddresses == {dotted(o) : o \in TestOctets} \cup {Ip_V6, Ip_V4Port}

\* HOST_CHECK_WORKFLOW.create with the resolver serving one A answer
CreateWithAddress(j) ==
    /\ pc[j] = "inserted"
    /\ pc' = [pc EXCEPT ![j] = "update-job-running"]
    /\ \E ip \in TestAddresses :
        resolver' = [resolver EXCEPT ![j] =
                        view(<<answer(1, ip)>>, <<>>, <<>>, <<>>, <<>>)]
    /\ UNCHANGED <<attempt, err, locals, db, platform, env, queries, dnsFinalFail>>

NextIp ==
    \/ SubmitInsert(1)
    \/ CreateWithAddress(1)
    \/ StepUpdateJobRunning(1)
    \/ StepDnsLookup(1)
    \/ StepCheckCfIp(1)

SpecIp == Init /\ [][NextIp]_vars

\* the 'check-cf-ip' step of job j has returned
Classified(j) == pc[j] = "get-auth-ns" /\ Len(aRecord[j]) > 0

nsQueryFor(name) == [name |-> name, type |-> Str_NS, ok |-> TRUE]

\* C14: NS resolution issues one query for the hostname; only if that yields no
\* NS records and the hostname minus its leftmost label is non-empty does it
\* issue exactly one more query, for that parent; it never issues a third, and
\* it returns the NS records of the last query made ('caa-check' with no
\* attempt made yet is where 'get-auth-ns' has just returned)
C14_WalkUpOneLevel ==
    \A j \in Slots :
        /\ Len(queries[j]) <= 2
        /\ pc[j] = "caa-check" /\ attempt[j] = 0 =>
            /\ Len(queries[j]) >= 1
            /\ queries[j][1] = nsQueryFor(hostname[j])
            /\ Len(queries[j]) = 2 <=>
                    /\ Len(dataOfType(resolver[j].ns, 2)) = 0
                    /\ parentOf(hostname[j]) # <<>>
            /\ Len(queries[j]) = 2 => queries[j][2] = nsQueryFor(parentOf(hostname[j]))
            /\ authNs[j] = dataOfType(IF Len(queries[j]) = 2 THEN resolver[j].nsParent
                                      ELSE resolver[j].ns, 2)

C14_Witness ==
    /\ pc[1] = "caa-check"
    /\ attempt[1] = 0
    /\ hostname[1] = Host_Sub
    /\ Len(queries[1]) = 2
    /\ authNs[1] = <<Ns_Plain>>

\* ------------------------------------------------------------------------
\* C15: text CAA decoding
\* ------------------------------------------------------------------------

Str_iodef == <<"i", "o", "d", "e", "f">>
Str_QuoteInside == <<"a", "\"", "b">>

\* the text '<decimal flags> <word tag> <value>' of a written record, the value
\* double-quoted or bare
caaText(w) ==
    octetText(w.flags) \o <<" ">> \o w.tag \o <<" ">>
        \o (IF w.quoted THEN <<"\"">> \o w.value \o <<"\"">> ELSE w.value)

CaaWritten ==
    [flags : {0, 1, 127, 128, 129, 255},
     tag : {Str_issue, Str_issuewild, Str_iodef},
     value : {<<>>, Str_letsencrypt_org, Str_pki_goog, Str_QuoteInside},
     quoted : BOOLEAN]

\* what the written record is to decode to
caaDecoded(w) ==
    [isNull |-> FALSE, critical |-> ((w.flags \div 128) % 2 = 1),
     tag |-> w.tag, value |-> w.value]

\* C15: an answer of type 257 whose data is '<decimal flags> <word tag> <value>',
\* the value double-quoted or bare, decodes to {critical, tag, value} with the
\* written tag, the value without its quotes, and critical true exactly when
\* bit 7 of flags is set
C15_TextDecoding ==
    \A j \in Slots : \A i \in 1..Len(caaCheckResult[j]) : \A w \in CaaWritten :
        caaCheckResult[j][i] = answer(257, caaText(w))
            => parseCAA(caaCheckResult[j][i]) = caaDecoded(w)

\* ------------------------------------------------------------------------
\* CAA decoding by the workflow and by the handler over answers of several types
\* ------------------------------------------------------------------------

\* \# 15 00 05 69 73 73 75 65 70 6b 69 2e 67 6f 6f 67: flags 0, tag issue, pki.goog
Caa_Hex ==
    <<"\\", "#", " ", "1", "5", " ", "0", "0", " ", "0", "5", " ",
      "6", "9", " ", "7", "3", " ", "7", "3", " ", "7", "5", " ", "6", "5", " ",
      "7", "0", " ", "6", "b", " ", "6", "9", " ", "2", "e", " ",
      "6", "7", " ", "6", "f", " ", "6", "f", " ", "6", "7">>

\* Answer arrays of a CAA query: CAA records in text and hex form, and records
\* of other types (CNAME 5, RRSIG 46, A 1, and the codes next to 257) whose
\* data is what a CAA record's could be
CaaAnswerLists ==
    { <<answer(257, Caa_Goog)>>,
      <<answer(257, Caa_Hex)>>,
      <<answer(5, Caa_LE)>>,
      <<answer(46, Caa_Hex)>>,
      <<answer(5, Name_Cname), answer(257, Caa_LE)>>,
      <<answer(256, Caa_Goog), answer(258, Caa_Hex)>>,
      <<answer(1, Ip_Plain)>> }

\* HOST_CHECK_WORKFLOW.create with the resolver serving one of the CAA answer arrays
CreateWithCaa(j) ==
    /\ pc[j] = "inserted"
    /\ pc' = [pc EXCEPT ![j] = "update-job-running"]
    /\ \E caa \in CaaAnswerLists :
        resolver' = [resolver EXCEPT ![j] = view(<<>>, <<>>, <<>>, caa, <<>>)]
    /\ UNCHANGED <<attempt, err, locals, db, platform, env, queries, dnsFinalFail>>

\* checkCaaPermission over the three authorities raises a TypeError
handlerVerdictsThrow(parsedCaas) ==
    "throw" \in {checkCaa(parsedCaas, Str_pki_goog), checkCaa(parsedCaas, Str_ssl_com),
                 checkCaa(parsedCaas, Str_letsencrypt_org)}

\* the request ends with a 500 carrying e.message
HandlerFails(j, e) ==
    /\ pc' = [pc EXCEPT ![j] = "handler-failed"]
    /\ err' = [err EXCEPT ![j] = e]

\* handleCheckHost from the request body to the three verdicts: the A lookup
\* and proxy classification, the nameservers, the CAA answers and their decoding
HandlerResolveWith(j, answerLists) ==
    /\ pc[j] = "idle"
    /\ \E body \in Inputs, caaAnswers \in answerLists,
          ra \in responsesFor(<<>>), rn1 \in responsesFor(<<>>), rn2 \in responsesFor(<<>>),
          rc2 \in responsesFor(<<>>) :
        \E rc1 \in responsesFor(caaAnswers) :
            LET qa == dnsQuery(trim(body), Str_A, ra)
                ns == getAuthNs(trim(body), rn1, rn2)
                caa == caaCheck(trim(body), rc1, rc2)
            IN  IF trim(body) = <<>>
                THEN /\ pc' = [pc EXCEPT ![j] = "handler-rejected"]
                     /\ UNCHANGED <<err, locals, resolver>>
                ELSE IF qa.threw \/ ns.threw \/ caa.threw
                THEN /\ HandlerFails(j, IF qa.threw THEN qa.error
                                        ELSE IF ns.threw THEN ns.error ELSE caa.error)
                     /\ UNCHANGED <<locals, resolver>>
                ELSE /\ hostname' = [hostname EXCEPT ![j] = trim(body)]
                     /\ aRecord' = [aRecord EXCEPT ![j] = qa.Answer]
                     /\ cfCheck' = [cfCheck EXCEPT ![j] =
                                        someCloudflareIp(dataOfType(qa.Answer, 1))]
                     /\ authNs' = [authNs EXCEPT ![j] = ns.value]
                     /\ caaCheckResult' = [caaCheckResult EXCEPT ![j] = caa.value]
                     /\ decoded' = [decoded EXCEPT ![j] = mapHandlerParseCAA(caa.value)]
                     /\ resolver' = [resolver EXCEPT ![j] =
                                        view(<<>>, <<>>, <<>>, caaAnswers, <<>>)]
                     /\ IF handlerVerdictsThrow(filterNonNull(mapHandlerParseCAA(caa.value)))
                        THEN HandlerFails(j, Str_TypeError)
                        ELSE /\ pc' = [pc EXCEPT ![j] = "handler-resolved"]
                             /\ UNCHANGED err
                     /\ UNCHANGED <<created, data, apiCheck, zoneHoldRes>>
    /\ UNCHANGED <<attempt, db, platform, env, queries, dnsFinalFail>>

\* handleCheckHost with the resolver serving one of the CAA answer arrays
HandlerResolve(j) == HandlerResolveWith(j, CaaAnswerLists)

NextCaa ==
    \/ SubmitInsert(1)
    \/ CreateWithCaa(1)
    \/ StepUpdateJobRunning(1)
    \/ StepDnsLookup(1)
    \/ StepGetAuthNs(1)
    \/ StepCaaCheck(1)
    \/ HandlerResolve(2)

SpecCaa == Init /\ [][NextCaa]_vars

\* C16: for every answer whose type code is not 257 the decoding is null,
\* whatever its data, in the workflow's decoder (slot 1) and in the handler's
\* decoder (slot 2)
C16_OtherTypesDecodeNull ==
    \A j \in Slots :
        /\ Len(decoded[j]) = Len(caaCheckResult[j])
        /\ \A i \in 1..Len(decoded[j]) :
                caaCheckResult[j][i].type # 257 => decoded[j][i] = Null

C16_Witness ==
    /\ pc[1] = "zone-hold-check"
    /\ caaCheckResult[1] = <<answer(5, Caa_LE)>>
    /\ decoded[1] = <<Null>>
    /\ pc[2] = "handler-resolved"
    /\ caaCheckResult[2] = <<answer(46, Caa_Hex)>>
    /\ decoded[2] = <<Null>>

\* ------------------------------------------------------------------------
\* C17: rejection of a submission without hostname
\* ------------------------------------------------------------------------

\* C17: a submission with an empty or missing hostname is rejected before
\* anything else: the rejection creates no job record, starts no workflow and
\* sends no DNS query or platform request, and nothing follows it
C17_RejectedBeforeAnythingElse ==
    [][\A j \in Slots :
        /\ pc[j] = "idle" /\ pc'[j] = "rejected" =>
                UNCHANGED <<jobs, hosts, lastWriter, account, nextId, requests, queries,
                            resolver, locals>>
        /\ pc[j] = "rejected" =>
                /\ pc'[j] = "rejected"
                /\ jobs'[j] = NoJob
                /\ queries'[j] = <<>>
                /\ \A r \in requests' : r.slot # j]_vars

C17_Witness ==
    /\ pc[1] = "done"
    /\ pc[2] = "rejected"
    /\ jobs[2] = NoJob
    /\ hosts # {}

\* ------------------------------------------------------------------------
\* C18: two overlapping checks of one hostname
\* ------------------------------------------------------------------------

\* POST /api/check-host for the hostname both checks are about, whatever the
\* other check is doing
SubmitOverlapping(j) ==
    /\ pc[j] = "idle"
    /\ pc' = [pc EXCEPT ![j] = "inserted"]
    /\ hostname' = [hostname EXCEPT ![j] = Host_Sub]
    /\ jobs' = insertJob(jobs, j, Host_Sub)
    /\ UNCHANGED <<attempt, err, aRecord, cfCheck, authNs, caaCheckResult, decoded, created,
                   data, apiCheck, zoneHoldRes, hosts, lastWriter, platform, env, dnsGhost>>

\* what the resolver serves to the overlapping checks: the two views that differ
\* in every field of the result
OverlapViews ==
    {v \in ResolverViews : Len(v.a) > 0 /\ ~verdictsThrow(v.caa \o v.caaParent)}

\* HOST_CHECK_WORKFLOW.create for an overlapping check
CreateOverlapping(j) ==
    /\ pc[j] = "inserted"
    /\ pc' = [pc EXCEPT ![j] = "update-job-running"]
    /\ \E v \in OverlapViews : resolver' = [resolver EXCEPT ![j] = v]
    /\ UNCHANGED <<attempt, err, locals, db, platform, env, queries, dnsFinalFail>>

NextOverlap ==
    \E j \in Slots :
        \/ SubmitOverlapping(j)
        \/ CreateOverlapping(j)
        \/ StepUpdateJobRunning(j)
        \/ StepDnsLookup(j)
        \/ StepCheckCfIp(j)
        \/ StepGetAuthNs(j)
        \/ StepCaaCheck(j)
        \/ StepZoneHoldCheck(j)
        \/ StepZoneHoldDelete(j)
        \/ StepSaveHosts(j)
        \/ StepSaveJob(j)
        \/ StepHandleFailure(j)

\* the credentials are bound, so that every check probes the platform
InitOverlap == Init /\ env.token /\ env.zone

SpecOverlap == InitOverlap /\ [][NextOverlap]_vars

\* the rows of hostname h in table t
RowsOf(t, h) == {r \in t : r.hostname = h}

\* the upsert of check j is applied in this step
Upserts(j) == pc[j] = "save-to-db" /\ pc'[j] = "save-job"

StepNo(p) ==
    CASE p = "dns-lookup" -> 1
      [] p = "check-cf-ip" -> 2
      [] p = "get-auth-ns" -> 3
      [] p = "caa-check" -> 4
      [] p \in {"zone-hold-check", "zone-hold-delete"} -> 5
      [] p = "save-to-db" -> 6
      [] p = "save-job" -> 7
      [] p = "done" -> 8
      [] OTHER -> 0

\* C19: within one check the steps run in the order A resolution, proxy
\* classification, NS resolution, CAA resolution and decoding with the three
\* verdicts, hold determination, hosts upsert, job completion; each starts when
\* the one before it has returned (a step that threw is run again or ends the
\* sequence; the classification is passed over when there is no A answer); the
\* hold determination uses the NS list the NS step of the same check returned;
\* and the hosts table is written only by a check that is at its upsert
C19_StepOrder ==
    [][/\ \A j \in Slots :
            /\ (StepNo(pc[j]) > 0 /\ pc'[j] # pc[j]) =>
                    \/ pc'[j] = "handle-failure"
                    \/ StepNo(pc'[j]) = StepNo(pc[j]) + 1
                    \/ pc[j] = "dns-lookup" /\ pc'[j] = "get-auth-ns" /\ Len(aRecord'[j]) = 0
                    \/ pc[j] = "zone-hold-delete" /\ pc'[j] = "save-to-db"
                    \/ pc[j] = "zone-hold-check" /\ pc'[j] = "zone-hold-delete"
                    \/ pc[j] = "save-job" /\ pc'[j] = "save-to-db"
            /\ (pc[j] = "handle-failure" /\ pc'[j] # pc[j]) => pc'[j] \in {"done", "errored"}
            /\ (authNs'[j] # authNs[j]) =>
                    \/ pc[j] = "get-auth-ns" /\ pc'[j] = "caa-check"
                    \/ pc'[j] \in {"done", "errored"}
            /\ (StepNo(pc[j]) = 5 /\ pc'[j] = "save-to-db") =>
                    zoneHoldRes'[j] = zoneHoldStep(isCloudflareManaged(authNs[j]), apiCheck'[j])
       /\ hosts' # hosts => \E j \in Slots : pc[j] = "save-to-db" /\ pc'[j] = "save-job"]_vars

\* two overlapping checks with different nameservers: one, on platform
\* nameservers, has its hold determined as likely, the other has applied its
\* upsert with the hold of its own nameservers
C19_Witness ==
    /\ pc[1] = "save-to-db"
    /\ isCloudflareManaged(authNs[1])
    /\ zoneHoldRes[1].zone_hold = "likely"
    /\ pc[2] = "save-job"
    /\ ~isCloudflareManaged(authNs[2])
    /\ zoneHoldRes[2].zone_hold = "no"
    /\ \E r \in hosts : r = hostsRow(2)

\* ------------------------------------------------------------------------
\* C20: submissions of one hostname in different spellings
\* ------------------------------------------------------------------------

\* POST /api/check-host with one of the spellings
SubmitSpelling(j) ==
    /\ pc[j] = "idle"
    /\ pc' = [pc EXCEPT ![j] = "inserted"]
    /\ \E h \in Spellings :
        /\ hostname' = [hostname EXCEPT ![j] = h]
        /\ jobs' = insertJob(jobs, j, h)
    /\ UNCHANGED <<attempt, err, aRecord, cfCheck, authNs, caaCheckResult, decoded, created,
                   data, apiCheck, zoneHoldRes, hosts, lastWriter, platform, env, dnsGhost>>

NextSpelling ==
    \E j \in Slots :
        \/ Turn(j) /\ SubmitSpelling(j)
        \/ CreateOverlapping(j)
        \/ StepUpdateJobRunning(j)
        \/ StepDnsLookup(j)
        \/ StepCheckCfIp(j)
        \/ StepGetAuthNs(j)
        \/ StepCaaCheck(j)
        \/ StepZoneHoldCheck(j)
        \/ StepZoneHoldDelete(j)
        \/ StepSaveHosts(j)
        \/ StepSaveJob(j)
        \/ StepHandleFailure(j)

SpecSpelling == Init /\ [][NextSpelling]_vars

\* the hostname a spelling stands for
normalized(h) == toLowerCase(trim(h))

\* C20: the hosts key is case-normalized: submissions whose hostnames differ
\* only in letter case or surrounding whitespace are checks of one hostname and
\* leave a single hosts row
C20_CaseNormalizedKey ==
    \A r1, r2 \in hosts : normalized(r1.hostname) = normalized(r2.hostname) => r1 = r2

\* ------------------------------------------------------------------------
\* C21: empty DNS answers are results
\* ------------------------------------------------------------------------

\* positions of run() between the CAA step and the job's completion
AfterCaa == {"zone-hold-check", "zone-hold-delete", "save-to-db", "save-job"}

\* the result of a check that found no record at all
EmptyFindings(r) ==
    /\ r.dns_result = <<>>
    /\ r.is_proxied = "no"
    /\ r.authoritative_ns = <<>>
    /\ r.ssl_google = "allowed"
    /\ r.ssl_ssl_com = "allowed"
    /\ r.ssl_lets_encrypt = "allowed"

\* C21: when the resolver has no record of any type for the hostname and its
\* parent, the check goes on to the probe and the save with an empty
\* dns_result, is_proxied no, no nameserver and three allowed verdicts; it is
\* sent to the failure handler only by a query answered without success or by
\* a database fault, never by the empty answers; and the save completes the
\* job with that result
C21_EmptyAnswersAreResults ==
    [][\A j \in Slots : resolver[j] = NoView =>
        /\ pc'[j] \in AfterCaa => EmptyFindings(finResult(j)')
        /\ pc[j] # "handle-failure" /\ pc'[j] = "handle-failure" =>
                dnsFinalFail'[j] \/ err'[j] = Str_D1Error
        /\ pc[j] = "save-job" /\ pc'[j] = "done" =>
                /\ jobs'[j].status = "completed"
                /\ EmptyFindings(jobs'[j].result)]_vars

\* a job completed with the empty findings
C21_Witness ==
    /\ pc[1] = "done"
    /\ jobs[1].status = "completed"
    /\ ~jobs[1].result.isNull
    /\ "dns_result" \in DOMAIN jobs[1].result
    /\ EmptyFindings(jobs[1].result)

\* ------------------------------------------------------------------------
\* C22: re-invoking the probe
\* ------------------------------------------------------------------------

\* the platform would take a creation request for h like a first one: the
\* account holds no custom hostname for h
FreshFor(h, acc) == \A r \in acc : r.hostname # h

\* C22: an execution of the probe that found the platform without a custom
\* hostname for its hostname and created one leaves the platform as it found
\* it, so that a second execution's creation request for the same hostname is
\* taken like a fresh one, also when the deletion request of the first
\* execution failed
C22_ProbeReinvocable ==
    [][\A j \in Slots :
        /\ pc[j] = "zone-hold-delete"
        /\ pc'[j] = "save-to-db"
        /\ FreshFor(hostname[j], {r \in account : r.id # created[j]})
        => FreshFor(hostname[j], account')]_vars

\* ------------------------------------------------------------------------
\* C23: the CAA walk-up
\* ------------------------------------------------------------------------

\* C23: the CAA resolution queries the parent exactly when the hostname's own
\* answer holds no record of type 257 and the parent is non-empty, also when
\* that answer holds only records of other types, and at most once
C23_WalkUpOnCaaPresence ==
    \A j \in Slots :
        pc[j] = "zone-hold-check" =>
            /\ Len(queries[j]) \in {1, 2}
            /\ Len(queries[j]) = 2 <=>
                    /\ Len(dataOfType(resolver[j].caa, 257)) = 0
                    /\ parentOf(hostname[j]) # <<>>

\* ------------------------------------------------------------------------
\* C24: binary CAA data in the check pipeline
\* ------------------------------------------------------------------------

\* what Caa_Hex encodes: flags 0, the five tag bytes 'issue', the value 'pki.goog'
Caa_HexDecoded ==
    [isNull |-> FALSE, critical |-> FALSE, tag |-> Str_issue, value |-> Str_pki_goog]

\* C24: a type-257 answer in binary form (escape marker, length field, hex
\* byte tokens) is decoded to flags = byte 0, tag = the bytes counted by byte
\* 1, value = the remaining bytes, and the verdicts of the check are computed
\* from that record: a record that names pki.goog allows it and no other
\* authority
C24_BinaryCaaInVerdicts ==
    \A j \in Slots :
        /\ pc[j] \in {"zone-hold-check", "handler-resolved"}
        /\ caaCheckResult[j] = <<answer(257, Caa_Hex)>>
        => /\ decoded[j] = <<Caa_HexDecoded>>
           /\ pc[j] = "zone-hold-check" =>
                /\ sslGoogle(caaCheckResult[j]) = "allowed"
                /\ sslSslCom(caaCheckResult[j]) = "not_allowed"
                /\ sslLetsEncrypt(caaCheckResult[j]) = "not_allowed"

\* ------------------------------------------------------------------------
\* C25: malformed binary CAA data
\* ------------------------------------------------------------------------

\* hex tokens a binary answer is written with: whole bytes and a single digit
HexTokens == {<<"0", "0">>, <<"0", "1">>, <<"0", "2">>, <<"6", "1">>, <<"8", "0">>, <<"6">>}

\* the token sequences written, none to three tokens
HexWritten ==
    {<<>>} \cup {<<a>> : a \in HexTokens} \cup {<<a, b>> : a, b \in HexTokens}
        \cup {<<a, b, c>> : a, b, c \in HexTokens}

\* the hex digits of a token sequence
hexDigits(w) == join(w, <<>>)

\* the number of whole bytes the digits hold, as the length field's digit
lengthField(w) == <<DigitChars[(Len(hexDigits(w)) \div 2) + 1]>>

\* the answer data: escape marker, length field and the tokens
hexText(w) ==
    <<"\\", "#", " ">> \o lengthField(w)
        \o (IF Len(w) = 0 THEN <<>> ELSE <<" ">> \o join(w, <<" ">>))

\* Answer arrays of a CAA query holding one binary answer
HexAnswerLists == {<<answer(257, hexText(w))>> : w \in HexWritten}

\* the k-th byte the digits encode
writtenByte(w, k) == 16 * hexVal(hexDigits(w)[2 * k - 1]) + hexVal(hexDigits(w)[2 * k])

\* the three ways of being malformed: an odd number of hex digits, fewer than
\* two bytes, a tag length beyond the bytes after the first two
OddDigits(w) == Len(hexDigits(w)) % 2 = 1
TooShort(w) == Len(hexDigits(w)) \div 2 < 2
TagOverruns(w) ==
    /\ Len(hexDigits(w)) \div 2 >= 2
    /\ writtenByte(w, 2) > (Len(hexDigits(w)) \div 2) - 2
Malformed(w) == OddDigits(w) \/ TooShort(w) \/ TagOverruns(w)

NextHex == HandlerResolveWith(2, HexAnswerLists)

SpecHex == Init /\ [][NextHex]_vars

\* C25: every binary answer that is malformed (odd number of hex digits, tag
\* length beyond the bytes available, fewer than two bytes) is decoded to null
\* by the handler's decoder, and the decoding does not fail the request
C25_MalformedBinaryIsNull ==
    \A j \in Slots :
        /\ pc[j] = "handler-failed" => IsDnsError(err[j])
        /\ \A w \in HexWritten :
            /\ pc[j] = "handler-resolved"
            /\ caaCheckResult[j] = <<answer(257, hexText(w))>>
            /\ Malformed(w)
            => decoded[j] = <<Null>>

\* ------------------------------------------------------------------------
\* C26: the addresses next to a range
\* ------------------------------------------------------------------------

\* the address served to check j is the outer neighbour o of a range
Served(j, o) == Classified(j) /\ aRecord[j][1].data = dotted(o)

Ip_Other == <<"9", ".", "9", ".", "9", ".", "9">>

\* Answer arrays of the A query: none, one or two A records in either order,
\* records of other types (CNAME 5, AAAA 28) alone and before an A record, and
\* a record of another type whose data is an address inside a proxy range
AAnswerLists ==
    { <<>>,
      <<answer(1, Ip_Plain)>>,
      <<answer(1, Ip_Proxy)>>,
      <<answer(1, Ip_Plain), answer(1, Ip_Proxy)>>,
      <<answer(1, Ip_Proxy), answer(1, Ip_Other)>>,
      <<answer(1, Ip_Other), answer(1, Ip_Plain)>>,
      <<answer(5, Name_Cname)>>,
      <<answer(5, Ip_Proxy)>>,
      <<answer(28, Ip_V6)>>,
      <<answer(5, Name_Cname), answer(1, Ip_Plain), answer(1, Ip_Proxy)>>,
      <<answer(5, Ip_Proxy), answer(1, Ip_Other)>> }

\* HOST_CHECK_WORKFLOW.create with the resolver serving one of the A answer arrays
CreateWithAnswers(j) ==
    /\ pc[j] = "inserted"
    /\ pc' = [pc EXCEPT ![j] = "update-job-running"]
    /\ \E a \in AAnswerLists :
        resolver' = [resolver EXCEPT ![j] = view(a, <<>>, <<>>, <<>>, <<>>)]
    /\ UNCHANGED <<attempt, err, locals, db, platform, env, queries, dnsFinalFail>>

NextA ==
    \/ SubmitInsert(1)
    \/ CreateWithAnswers(1)
    \/ StepUpdateJobRunning(1)
    \/ StepDnsLookup(1)
    \/ StepCheckCfIp(1)

SpecA == Init /\ [][NextA]_vars

\* the data of the A-typed answers in answer order, separated by ', '
RECURSIVE listed(_, _)
listed(answers, first) ==
    IF Len(answers) = 0 THEN <<>>
    ELSE IF answers[1].type # 1 THEN listed(Tail(answers), first)
    ELSE (IF first THEN <<>> ELSE <<",", " ">>) \o answers[1].data
            \o listed(Tail(answers), FALSE)

SubmitDistinct(j) ==
    /\ pc[j] = "idle"
    /\ pc' = [pc EXCEPT ![j] = "inserted"]
    /\ hostname' = [hostname EXCEPT ![j] = IF j = 1 THEN Host_Sub ELSE Host_Tld]
    /\ jobs' = insertJob(jobs, j, IF j = 1 THEN Host_Sub ELSE Host_Tld)
    /\ UNCHANGED <<attempt, err, aRecord, cfCheck, authNs, caaCheckResult, decoded, created,
                   data, apiCheck, zoneHoldRes, hosts, lastWriter, platform, env, dnsGhost>>

NextDistinct ==
    \E j \in Slots :
        \/ SubmitDistinct(j)
        \/ CreateOverlapping(j)
        \/ StepUpdateJobRunning(j)
        \/ StepDnsLookup(j)
        \/ StepCheckCfIp(j)
        \/ StepGetAuthNs(j)
        \/ StepCaaCheck(j)
        \/ StepZoneHoldCheck(j)
        \/ StepZoneHoldDelete(j)
        \/ StepSaveHosts(j)
        \/ StepSaveJob(j)
        \/ StepHandleFailure(j)

SpecDistinct == InitOverlap /\ [][NextDistinct]_vars

\* the step taken is one of check j
Acts(j) == pc'[j] # pc[j] \/ attempt'[j] # attempt[j]

\* what run() of check k holds between its steps
LocalsOf(k) ==
    <<hostname[k], aRecord[k], cfCheck[k], authNs[k], caaCheckResult[k], apiCheck[k],
      zoneHoldRes[k], err[k], pc[k], attempt[k]>>

\* C28: a step of the check of job j, the failure handler included, changes no
\* job row but j's and no hosts row but the one keyed by j's hostname, and
\* nothing another check holds; the rows it writes are made of its own values
\* only, so that two concurrent checks of different hostnames leave the rows
\* they would leave one after the other
C28_ChecksIsolated ==
    [][\A j \in Slots : Acts(j) =>
        /\ \A k \in Slots \ {j} : jobs'[k] = jobs[k] /\ LocalsOf(k)' = LocalsOf(k)
        /\ \A h \in HostKeys \ {hostname[j]} : RowsOf(hosts', h) = RowsOf(hosts, h)
        /\ Upserts(j) => RowsOf(hosts', hostname[j]) = {hostsRow(j)}
        /\ pc[j] = "save-job" /\ pc'[j] = "done" =>
                jobs'[j] = [hostname |-> hostname[j], status |-> "completed",
                            result |-> finResult(j)]]_vars

\* both checks are between their upsert and the completion of their job and
\* the table holds the row of each
C28_Witness ==
    /\ pc[1] = "save-job"
    /\ pc[2] = "save-job"
    /\ hostname[1] # hostname[2]
    /\ hosts = {hostsRow(1), hostsRow(2)}
    /\ hostsRow(1).dns_result # hostsRow(2).dns_result

\* ------------------------------------------------------------------------
\* C29: every submitted job reaches a terminal status
\* ------------------------------------------------------------------------

\* C29: a job inserted as pending becomes completed or failed: once the
\* request and the workflow of a submission have nothing left to do, its job
\* row, if one was inserted, is completed or failed, also when starting the
\* workflow failed and when the failure handler's own update failed
C29_JobReachesTerminalStatus ==
    \A j \in Slots :
        pc[j] \in Finished /\ jobs[j] # NoJob => jobs[j].status \in {"completed", "failed"}

\* ------------------------------------------------------------------------
\* C30: the verdicts over the decoder's output
\* ------------------------------------------------------------------------

\* C30: every non-null record the CAA decoder returned has a string tag and a
\* string value, also for an empty quoted value, and the computation of the
\* three verdicts never raises: no check is sent to the failure handler by a
\* TypeError
C30_VerdictsNeverFault ==
    \A j \in Slots :
        /\ \A i \in 1..Len(decoded[j]) :
                decoded[j][i] # Null =>
                    /\ decoded[j][i].tag # Undefined
                    /\ decoded[j][i].value # Undefined
        /\ err[j] # Str_TypeError

\* ------------------------------------------------------------------------
\* C31: CAA restrictions and answers that cannot be decoded
\* ------------------------------------------------------------------------

\* some record decoded for check j is an issue or issuewild record naming d
NamedBy(j, d) ==
    \E i \in 1..Len(decoded[j]) :
        /\ decoded[j][i] # Null
        /\ decoded[j][i].tag \in {Str_issue, Str_issuewild}
        /\ decoded[j][i].value # Undefined
        /\ includes(decoded[j][i].value, d)

\* C31: when the resolved CAA answers hold a record of type 257, an authority
\* is reported allowed only if a decoded issue or issuewild record names it;
\* answers that cannot be decoded do not make the record set count as empty
\* (the workflow has its verdicts at 'zone-hold-check', the handler at
\* 'handler-resolved')
C31_RestrictionsNotDropped ==
    \A j \in Slots : \A d \in Authorities :
        /\ pc[j] \in {"zone-hold-check", "handler-resolved"}
        /\ \E i \in 1..Len(caaCheckResult[j]) : caaCheckResult[j][i].type = 257
        /\ checkCaa(filterNonNull(decoded[j]), d) = "allowed"
        => NamedBy(j, d)

\* ------------------------------------------------------------------------
\* C32: what the probe leaves in the account
\* ------------------------------------------------------------------------

\* C32: no probe resource is left behind: the account starts without custom
\* hostnames and only probes create any, so every custom hostname the account
\* holds is the one a probe has created and not yet asked to delete; once a
\* hold determination has returned, nothing its probe created is in the account
C32_NoProbeResourceLeft ==
    \A r \in account :
        \E j \in Slots : pc[j] = "zone-hold-delete" /\ created[j] = r.id

\* ------------------------------------------------------------------------
\* C33: clearing the results while a check is under way
\* ------------------------------------------------------------------------

\* DELETE /api/results as request j, arriving after the submission of check 1:
\* every hosts row is deleted and the request is answered
ClearRequest(j) ==
    /\ pc[j] = "idle"
    /\ pc[1] # "idle"
    /\ pc' = [pc EXCEPT ![j] = "clear-done"]
    /\ hosts' = {}
    /\ lastWriter' = [h \in HostKeys |-> 0]
    /\ UNCHANGED <<attempt, err, locals, jobs, platform, env, dnsGhost>>

NextClear ==
    \/ SubmitOverlapping(1)
    \/ CreateOverlapping(1)
    \/ StepUpdateJobRunning(1)
    \/ StepDnsLookup(1)
    \/ StepCheckCfIp(1)
    \/ StepGetAuthNs(1)
    \/ StepCaaCheck(1)
    \/ StepZoneHoldCheck(1)
    \/ StepZoneHoldDelete(1)
    \/ StepSaveHosts(1)
    \/ StepSaveJob(1)
    \/ StepHandleFailure(1)
    \/ ClearRequest(2)

SpecClear == Init /\ [][NextClear]_vars

\* C33: clearing is not undone by older work: the only check there is was
\* submitted before the clear-all request, so once that request has completed
\* the hosts table is empty and stays empty
C33_ClearNotUndone == pc[2] = "clear-done" => hosts = {}

\* ------------------------------------------------------------------------
\* C34: a completed job and the row its execution stored
\* ------------------------------------------------------------------------

\* the result of a job agrees with a hosts row in every value both hold; the
\* nameservers are a list in the result and its ', ' joined text in the row
Agrees(result, row) ==
    /\ result.hostname = row.hostname
    /\ join(result.authoritative_ns, <<",", " ">>) = row.authoritative_ns
    /\ result.is_proxied = row.is_proxied
    /\ result.dns_type = row.dns_type
    /\ result.dns_result = row.dns_result
    /\ result.ssl_google = row.ssl_google
    /\ result.ssl_ssl_com = row.ssl_ssl_com
    /\ result.ssl_lets_encrypt = row.ssl_lets_encrypt
    /\ result.zone_hold = row.zone_hold

\* C34: a job becomes completed only in the step that follows the hosts upsert
\* of its own execution, whose row is in the table unless the results were
\* cleared since, and the result stored in the job agrees with the values
\* that upsert bound
C34_CompletedJobBacked ==
    [][\A j \in Slots :
        /\ pc[j] = "save-job" =>
                \/ RowsOf(hosts, hostname[j]) = {hostsRow(j)} /\ lastWriter[hostname[j]] = j
                \/ RowsOf(hosts, hostname[j]) = {} /\ lastWriter[hostname[j]] = 0
        /\ jobs[j].status # "completed" /\ jobs'[j].status = "completed" =>
                /\ pc[j] = "save-job"
                /\ Agrees(jobs'[j].result, hostsRow(j))]_vars

\* a completed job whose row, with is_proxied yes, is in the table
C34_Witness ==
    /\ pc[1] = "done"
    /\ jobs[1].status = "completed"
    /\ jobs[1].result.is_proxied = "yes"
    /\ \E r \in hosts : Agrees(jobs[1].result, r)

\* ------------------------------------------------------------------------
\* C35: the workflow and the handler on the same responses
\* ------------------------------------------------------------------------

\* the workflow check in slot 1 and the handler request in slot 2 have both
\* computed their verdicts, for one hostname and from one resolver view
SameInputs ==
    /\ pc[1] = "zone-hold-check"
    /\ pc[2] = "handler-resolved"
    /\ hostname[1] = hostname[2]
    /\ resolver[1] = resolver[2]

\* C35: for the same hostname and the same responses of the resolver the
\* workflow and the handler compute the same nameserver list, is_proxied,
\* dns_result and three authority verdicts
C35_WorkflowEqualsHandler ==
    SameInputs =>
        /\ authNs[1] = authNs[2]
        /\ isProxiedOf(cfCheck[1]) = isProxiedOf(cfCheck[2])
        /\ dnsResultOf(aRecord[1]) = dnsResultOf(aRecord[2])
        /\ \A d \in Authorities :
                checkCaa(parsedCaasOf(caaCheckResult[1]), d)
                    = checkCaa(filterNonNull(mapHandlerParseCAA(caaCheckResult[2])), d)

====
